---- MODULE Spec2Model ----
(***************************************************************************)
(* A model of the Jaeger query clients of jaeger-mcp-server: the streaming *)
(* (gRPC) client of src/client/jaeger-grpc-client.ts and the REST (HTTP)   *)
(* client of src/client/jaeger-http-client.ts, of which the source tree    *)
(* holds three revisions.  A client instance is built once; calls are      *)
(* issued on it concurrently; the transport (grpc-js, axios) delivers      *)
(* events to the handlers the client registered; the code after each       *)
(* `await` turns the settled promise into what the caller gets.            *)
(***************************************************************************)
EXTENDS Integers, Sequences, FiniteSets, TLC

(***************************************************************************)
(* Bounds of the model.                                                    *)
(***************************************************************************)
MaxCalls == 2       \* calls issued on the one client instance
MaxChunks == 3      \* data events the transport delivers, all streams together
MaxRs == 1          \* resource-spans in one chunk's collection
MaxTime == 1        \* the clock stops stepping on its own at this time (ms)
MaxMs == 2500       \* timestamps and durations run over -MaxMs..MaxMs (ms)
MaxCode == 40       \* enum codes on the wire run over 0..MaxCode

(***************************************************************************)
(* Program constants.                                                      *)
(***************************************************************************)
DEFAULT_REQUEST_TIMEOUT_MS == 60000
UNIMPLEMENTED == 12
DEADLINE_EXCEEDED == 4
HTTP_STATUS_CODE_NOT_FOUND == 404

\* The statuses the backend answers with besides the ones the clients single
\* out: gRPC NOT_FOUND and UNAVAILABLE.
OtherGrpcStatus == {5, 14}

Calls == 1..MaxCalls

\* An optional JavaScript value: <<>> is undefined/null, <<v>> is v.
None == <<>>
Some(v) == <<v>>

(***************************************************************************)
(* Strings.  toLowerCase, toUpperCase and includes work on the characters. *)
(***************************************************************************)
UpperLetters == "ABCDEFGHIJKLMNOPQRSTUVWXYZ"
LowerLetters == "abcdefghijklmnopqrstuvwxyz"

MapChar(ch, from, to) ==
    IF \E i \in 1..Len(from) : SubSeq(from, i, i) = ch
    THEN LET i == CHOOSE k \in 1..Len(from) : SubSeq(from, k, k) = ch
         IN  SubSeq(to, i, i)
    ELSE ch

RECURSIVE MapString(_, _, _)
MapString(s, from, to) ==
    IF Len(s) = 0 THEN s
    ELSE MapChar(SubSeq(s, 1, 1), from, to)
             \o MapString(SubSeq(s, 2, Len(s)), from, to)

ToLowerCase(s) == MapString(s, UpperLetters, LowerLetters)
ToUpperCase(s) == MapString(s, LowerLetters, UpperLetters)

Includes(s, sub) ==
    \E i \in 1..(Len(s) - Len(sub) + 1) : SubSeq(s, i, i + Len(sub) - 1) = sub

(***************************************************************************)
(* Errors.  origin tells the error object the transport raised from one    *)
(* the client built itself; code is the gRPC status or the axios code;     *)
(* status and responseStatus are err.status and err.response.status.       *)
(***************************************************************************)
MkError(origin, code, message, status, responseStatus) ==
    [origin |-> origin, code |-> code, message |-> message,
     status |-> status, responseStatus |-> responseStatus]

NewError(message) == MkError("client", None, message, None, None)

\* Math.round(timeoutMs / 1000): halves round towards plus infinity.
RoundSeconds(timeoutMs) == (timeoutMs + 500) \div 1000

formatRequestTimedOutMessage(timeoutMs) ==
    "Request timed out after " \o ToString(RoundSeconds(timeoutMs)) \o "s"

(***************************************************************************)
(* What a call hands to its caller.  A response object is the set of its   *)
(* fields that carry a value (a field set to undefined is absent) and the  *)
(* list it carries, if any: resourceSpans, services or operations.         *)
(***************************************************************************)
NoError == MkError("none", None, "", None, None)

Success(present, items) ==
    [kind |-> "success", present |-> present, items |-> items, err |-> NoError]

Failure(err) ==
    [kind |-> "failure", present |-> {}, items |-> <<>>, err |-> err]

NoOutcome == [kind |-> "none", present |-> {}, items |-> <<>>, err |-> NoError]

\* `{} as R`
EmptyResult == Success({}, <<>>)

(***************************************************************************)
(* The four operations; on gRPC the two trace operations are streams.      *)
(***************************************************************************)
Ops == {"getServices", "getOperations", "getTrace", "findTraces"}
STREAMING_METHODS == {"findTraces", "getTrace"}

(***************************************************************************)
(* Canonical enum strings (domain/commons.ts) and the decoding tables.     *)
(***************************************************************************)
SpanKindNames == <<"unspecified", "internal", "server", "client", "producer", "consumer">>

spanKindMapByString(s) ==
    IF \E i \in 1..Len(SpanKindNames) : ToUpperCase(SpanKindNames[i]) = s
    THEN Some(SpanKindNames[CHOOSE i \in 1..Len(SpanKindNames) :
                                ToUpperCase(SpanKindNames[i]) = s])
    ELSE None

\* toSpanKind on a string argument (undefined and "" are falsy).
toSpanKindOfString(x) ==
    IF x = None \/ x = Some("") THEN None
    ELSE spanKindMapByString(ToUpperCase(x[1]))

(***************************************************************************)
(* Decoding of the streaming client: wire messages to canonical values.    *)
(* A conversion that dereferences a null message throws a TypeError.       *)
(***************************************************************************)
toNumber(n) == n

toAttribute(kv) ==
    [key |-> kv.key,
     value |->
        [stringValue |-> IF kv.value = None \/ kv.value[1].stringValue = Some("")
                         THEN None ELSE kv.value[1].stringValue,
         boolValue |-> IF kv.value = None \/ kv.value[1].boolValue = Some(FALSE)
                       THEN None ELSE kv.value[1].boolValue,
         intValue |-> IF kv.value = None THEN None
                      ELSE toNumber(kv.value[1].intValue),
         doubleValue |-> IF kv.value = None THEN None
                         ELSE toNumber(kv.value[1].doubleValue)]]

toResource(r) ==
    [attributes |-> IF Len(r.attributes) > 0
                    THEN Some([k \in 1..Len(r.attributes) |-> toAttribute(r.attributes[k])])
                    ELSE None,
     droppedAttributesCount |-> IF r.droppedAttributesCount = 0 THEN None
                                ELSE Some(r.droppedAttributesCount)]

toInstrumentationScope(is) ==
    [name |-> is.name,
     version |-> IF is.version = "" THEN None ELSE Some(is.version),
     attributes |-> IF Len(is.attributes) > 0
                    THEN Some([k \in 1..Len(is.attributes) |-> toAttribute(is.attributes[k])])
                    ELSE None,
     droppedAttributesCount |-> IF is.droppedAttributesCount = 0 THEN None
                                ELSE Some(is.droppedAttributesCount)]

\* Buffer.from(id).toString('hex'): two lowercase hex digits per byte.
HexDigits == "0123456789abcdef"

RECURSIVE HexOfBytes(_)
HexOfBytes(bytes) ==
    IF bytes = <<>> THEN ""
    ELSE SubSeq(HexDigits, (Head(bytes) \div 16) + 1, (Head(bytes) \div 16) + 1)
             \o SubSeq(HexDigits, (Head(bytes) % 16) + 1, (Head(bytes) % 16) + 1)
             \o HexOfBytes(Tail(bytes))

\* idString is <<>> for null/undefined, else <<bytes>>.
toIdString(idString) ==
    IF idString # None /\ Len(idString[1]) > 0 THEN HexOfBytes(idString[1]) ELSE ""

\* A 64-bit field is null, a number or a Long object (always truthy).
toTimeUnixNanoString(t) ==
    IF t = None THEN None
    ELSE IF t[1].long THEN Some(ToString(t[1].n))
    ELSE IF t[1].n = 0 THEN None
    ELSE Some(ToString(t[1].n))

StatusCodeNames == <<"unset", "ok", "error">>

\* toSpanKind / toStatusCode on a number argument (undefined and 0 are falsy).
toSpanKindOfNumber(x) ==
    IF x = None \/ x = Some(0) THEN None
    ELSE IF x[1] \in 0..(Len(SpanKindNames) - 1) THEN Some(SpanKindNames[x[1] + 1])
    ELSE None

toStatusCodeOfNumber(x) ==
    IF x = None \/ x = Some(0) THEN None
    ELSE IF x[1] \in 0..(Len(StatusCodeNames) - 1) THEN Some(StatusCodeNames[x[1] + 1])
    ELSE None

toEvent(e) ==
    [name |-> e.name,
     timeUnixNano |-> toTimeUnixNanoString(e.timeUnixNano),
     attributes |-> IF Len(e.attributes) > 0
                    THEN Some([k \in 1..Len(e.attributes) |-> toAttribute(e.attributes[k])])
                    ELSE None,
     droppedAttributesCount |-> IF e.droppedAttributesCount = 0 THEN None
                                ELSE Some(e.droppedAttributesCount)]

toLink(l) ==
    [traceId |-> toIdString(l.traceId),
     spanId |-> toIdString(l.spanId),
     traceState |-> IF l.traceState = "" THEN None ELSE Some(l.traceState),
     attributes |-> IF Len(l.attributes) > 0
                    THEN Some([k \in 1..Len(l.attributes) |-> toAttribute(l.attributes[k])])
                    ELSE None,
     droppedAttributesCount |-> IF l.droppedAttributesCount = 0 THEN None
                                ELSE Some(l.droppedAttributesCount)]

toStatus(s) ==
    IF s = None THEN None
    ELSE Some([code |-> toStatusCodeOfNumber(s[1].code),
               message |-> IF s[1].message = "" THEN None ELSE Some(s[1].message)])

toSpan(s) ==
    [traceId |-> toIdString(s.traceId),
     spanId |-> toIdString(s.spanId),
     traceState |-> IF s.traceState = "" THEN None ELSE Some(s.traceState),
     parentSpanId |-> toIdString(s.parentSpanId),
     name |-> s.name,
     kind |-> toSpanKindOfNumber(s.kind),
     startTimeUnixNano |-> toTimeUnixNanoString(s.startTimeUnixNano),
     endTimeUnixNano |-> toTimeUnixNanoString(s.endTimeUnixNano),
     attributes |-> IF Len(s.attributes) > 0
                    THEN Some([k \in 1..Len(s.attributes) |-> toAttribute(s.attributes[k])])
                    ELSE None,
     droppedAttributesCount |-> IF s.droppedAttributesCount = 0 THEN None
                                ELSE Some(s.droppedAttributesCount),
     events |-> IF Len(s.events) > 0
                THEN Some([k \in 1..Len(s.events) |-> toEvent(s.events[k])])
                ELSE None,
     droppedEventsCount |-> IF s.droppedEventsCount = 0 THEN None
                            ELSE Some(s.droppedEventsCount),
     links |-> IF Len(s.links) > 0
               THEN Some([k \in 1..Len(s.links) |-> toLink(s.links[k])])
               ELSE None,
     droppedLinksCount |-> IF s.droppedLinksCount = 0 THEN None
                           ELSE Some(s.droppedLinksCount),
     status |-> toStatus(s.status)]

\* ss.scope! is dereferenced without a check: a null scope throws.
toScopeSpansThrows(ss) == ss.scope = None

toScopeSpans(ss) ==
    [scope |-> toInstrumentationScope(ss.scope[1]),
     spans |-> [k \in 1..Len(ss.spans) |-> toSpan(ss.spans[k])],
     schemaUrl |-> IF ss.schemaUrl = "" THEN None ELSE Some(ss.schemaUrl)]

\* rs.resource! is dereferenced without a check: a null resource throws.
toResourceSpansThrows(rs) ==
    \/ rs.resource = None
    \/ \E k \in 1..Len(rs.scopeSpans) : toScopeSpansThrows(rs.scopeSpans[k])

toResourceSpans(rs) ==
    [resource |-> toResource(rs.resource[1]),
     scopeSpans |-> [k \in 1..Len(rs.scopeSpans) |-> toScopeSpans(rs.scopeSpans[k])],
     schemaUrl |-> IF rs.schemaUrl = "" THEN None ELSE Some(rs.schemaUrl)]

toOperation(op) ==
    [name |-> op.name, spanKind |-> toSpanKindOfString(op.spanKind)]

TypeErrorNull == MkError("client", None,
                         "Cannot read properties of null (reading 'attributes')",
                         None, None)

(***************************************************************************)
(* Stream aggregation: chunks.flatMap((c) => c.resourceSpans || []).       *)
(***************************************************************************)
\* A faulty variant: only the last chunk is kept.
flatMapLastChunk(chunks) ==
    IF chunks = <<>> \/ chunks[Len(chunks)].resourceSpans = None THEN <<>>
    ELSE chunks[Len(chunks)].resourceSpans[1]

RECURSIVE flatMapResourceSpans(_)
flatMapResourceSpans(chunks) ==
    IF chunks = <<>> THEN <<>>
    ELSE (IF Head(chunks).resourceSpans = None THEN <<>>
          ELSE Head(chunks).resourceSpans[1])
             \o flatMapResourceSpans(Tail(chunks))

(***************************************************************************)
(* The state.                                                              *)
(*   client    the client instance: implementation and requestTimeoutMs    *)
(*   now       Date.now()                                                  *)
(*   op        the operation of each call ("none": not issued yet)         *)
(*   issuedAt  the time each call was issued                               *)
(*   deadline  the deadline handed to the transport for each call          *)
(*   phase     each call's transport: idle, open, errored, ended           *)
(*   chunks    each streaming call's chunk buffer                          *)
(*   cbLog     the invocations of each call's rpc callback, in order       *)
(*   promise   the promise each call awaits                                *)
(*   outcome   what each call returned or threw to its caller              *)
(*   sent      the chunks the transport delivered on each stream, in order *)
(*   raised    the error the transport raised on each call, if any         *)
(*   sentAtError  how many chunks a stream had delivered when it failed    *)
(*   requests  the network requests (RPCs, HTTP GETs) issued for each call *)
(*   input     the argument a function of the clients is applied to        *)
(*   output    what the function returned, once it has been applied        *)
(***************************************************************************)
VARIABLES client, now, op, issuedAt, deadline, phase, chunks, cbLog, promise,
          outcome, sent, raised, sentAtError, requests, input, output

callVars == <<client, now, op, issuedAt, deadline, phase, chunks, cbLog, promise,
              outcome, sent, raised, sentAtError, requests>>

vars == <<callVars, input, output>>

\* The implementations a client instance is one of: the streaming client and
\* the three revisions of the REST client the source tree holds.
GrpcImpl == "JaegerGrpcClient"
Impls == {GrpcImpl, "jaeger-http-client.ts", "part_003", "part_002"}

\* The configurations a client is built with: requestTimeoutMs absent or given.
ConfigTimeouts == {None, Some(499), Some(1500)}

\* clientConfigurations.requestTimeoutMs ?? DEFAULT_REQUEST_TIMEOUT_MS
RequestTimeoutOf(configured) ==
    IF configured = None THEN DEFAULT_REQUEST_TIMEOUT_MS ELSE configured[1]

NoPromise == [st |-> "none", val |-> <<>>, err |-> NoError]
Pending == [st |-> "pending", val |-> <<>>, err |-> NoError]
Resolved(v) == [st |-> "resolved", val |-> v, err |-> NoError]
Rejected(e) == [st |-> "rejected", val |-> <<>>, err |-> e]

\* A faulty variant: the last resolve/reject call wins.
SettleLast(p, settled) == settled

\* A promise settles once: later resolve/reject calls are ignored.
Settle(p, settled) == IF p.st = "pending" THEN settled ELSE p

\* No call has been issued.
CallsIdle ==
    /\ now = 0
    /\ op = [c \in Calls |-> "none"]
    /\ issuedAt = [c \in Calls |-> 0]
    /\ deadline = [c \in Calls |-> 0]
    /\ phase = [c \in Calls |-> "idle"]
    /\ chunks = [c \in Calls |-> <<>>]
    /\ cbLog = [c \in Calls |-> <<>>]
    /\ promise = [c \in Calls |-> NoPromise]
    /\ outcome = [c \in Calls |-> NoOutcome]
    /\ sent = [c \in Calls |-> <<>>]
    /\ raised = [c \in Calls |-> NoError]
    /\ sentAtError = [c \in Calls |-> 0]
    /\ requests = [c \in Calls |-> 0]

\* No client has been constructed.
NoClient ==
    [impl |-> "none", requestTimeoutMs |-> 0, baseUrl |-> "",
     authorizationHeader |-> None]

\* A client built for the endpoint "jaeger" with an authorization header:
\* its transport, the address of its channel or its base URL, the header
\* and the timeout, all set by the constructor.
ClientFor(impl, requestTimeoutMs) ==
    [impl |-> impl, requestTimeoutMs |-> requestTimeoutMs,
     baseUrl |-> IF impl = GrpcImpl THEN "jaeger:16685" ELSE "http://jaeger:16686",
     authorizationHeader |-> Some("Bearer t0ken")]

InitWith(timeouts) ==
    /\ client \in {ClientFor(i, RequestTimeoutOf(t)) : i \in Impls, t \in timeouts}
    /\ CallsIdle
    /\ input = None
    /\ output = None

Init == InitWith(ConfigTimeouts)

InitConcurrent == InitWith({Some(1500)})

(***************************************************************************)
(* The clock: it steps on its own up to MaxTime, and it reaches the        *)
(* deadline of any call that is still open.                                *)
(***************************************************************************)
Tick ==
    /\ \/ /\ now + 1 <= MaxTime
          /\ now' = now + 1
       \/ \E c \in Calls :
             /\ phase[c] = "open"
             /\ deadline[c] > now
             /\ now' = deadline[c]
    /\ UNCHANGED <<input, output, requests, client, op, issuedAt, deadline, phase, chunks, cbLog,
                   promise, outcome, sent, raised, sentAtError>>

(***************************************************************************)
(* Issuing a call.  Calls are numbered in the order they are issued.       *)
(***************************************************************************)
\* new Date(Date.now() + requestTimeoutMs)
Deadline(t0, requestTimeoutMs) == t0 + requestTimeoutMs

Issue(c, o) ==
    /\ op[c] = "none"
    /\ \A d \in Calls : d < c => op[d] # "none"
    /\ op' = [op EXCEPT ![c] = o]
    /\ issuedAt' = [issuedAt EXCEPT ![c] = now]
    /\ deadline' = [deadline EXCEPT ![c] = Deadline(now, client.requestTimeoutMs)]
    /\ phase' = [phase EXCEPT ![c] = "open"]
    /\ promise' = [promise EXCEPT ![c] = Pending]
    /\ requests' = [requests EXCEPT ![c] = @ + 1]
    /\ UNCHANGED <<input, output, client, now, chunks, cbLog, outcome, sent,
                   raised, sentAtError>>

(***************************************************************************)
(* The streaming transport.  A stream delivers data events, then `end`, or *)
(* an `error` that data events still buffered and `end` may follow.        *)
(***************************************************************************)
WireResource == [attributes |-> <<>>, droppedAttributesCount |-> 0]

\* The j-th resource-spans of the k-th chunk of stream c.
WireRs(c, k, j, resource) ==
    [resource |-> resource, scopeSpans |-> <<>>,
     schemaUrl |-> "c" \o ToString(c) \o "/k" \o ToString(k) \o "/" \o ToString(j)]

\* The chunks the backend may send as the k-th data event of stream c: no
\* collection at all, a collection of 0..MaxRs resource-spans, or one whose
\* resource-spans has no resource.
ChunkChoices(c, k) ==
    {[resourceSpans |-> None]}
      \cup {[resourceSpans |-> Some([j \in 1..n |-> WireRs(c, k, j, Some(WireResource))])] :
               n \in 0..MaxRs}
      \cup {[resourceSpans |-> Some(<<WireRs(c, k, 1, None)>>)]}

GrpcStatusText(code) ==
    CASE code = UNIMPLEMENTED -> "12 UNIMPLEMENTED: unknown method"
      [] code = DEADLINE_EXCEEDED -> "4 DEADLINE_EXCEEDED: Deadline exceeded"
      [] code = 5 -> "5 NOT_FOUND: trace not found"
      [] OTHER -> "14 UNAVAILABLE: No connection established"

GrpcError(code) == MkError("transport", Some(code), GrpcStatusText(code), None, None)

\* The errors the transport may raise on call c now: the deadline expires
\* only once the deadline handed to the transport is reached.
GrpcErrors(c, others) ==
    {GrpcError(code) : code \in {UNIMPLEMENTED} \cup others}
      \cup (IF now >= deadline[c] THEN {GrpcError(DEADLINE_EXCEEDED)} ELSE {})

RECURSIVE SumLen(_, _)
SumLen(f, S) ==
    IF S = {} THEN 0
    ELSE LET c == CHOOSE x \in S : TRUE IN Len(f[c]) + SumLen(f, S \ {c})

\* Data events delivered so far, all streams together.
Delivered == SumLen(sent, Calls)

\* A faulty variant: one buffer shared by all the calls of the client.
PushChunkShared(buf, c, data) == [d \in DOMAIN buf |-> Append(buf[d], data)]

\* chunks.push(data) on the buffer of the call the stream belongs to.
PushChunk(buf, c, data) == [buf EXCEPT ![c] = Append(@, data)]

\* stream.on('data', (data) => chunks.push(data))
StreamData(c, data) ==
    /\ client.impl = GrpcImpl
    /\ op[c] \in STREAMING_METHODS
    /\ phase[c] \in {"open", "errored"}
    /\ Delivered < MaxChunks
    /\ chunks' = PushChunk(chunks, c, data)
    /\ sent' = [sent EXCEPT ![c] = Append(@, data)]
    /\ UNCHANGED <<input, output, requests, client, now, op, issuedAt, deadline, phase, cbLog, promise,
                   outcome, raised, sentAtError>>

\* TracesData.create({ resourceSpans })
TracesDataCreate(resourceSpans) == [resourceSpans |-> resourceSpans]

\* stream.on('end', ...): callback(null, merged chunks)
StreamEnd(c) ==
    /\ client.impl = GrpcImpl
    /\ op[c] \in STREAMING_METHODS
    /\ phase[c] \in {"open", "errored"}
    /\ phase' = [phase EXCEPT ![c] = "ended"]
    /\ cbLog' = [cbLog EXCEPT ![c] = Append(@, "response")]
    /\ promise' = [promise EXCEPT ![c] =
           Settle(@, Resolved(TracesDataCreate(flatMapResourceSpans(chunks[c]))))]
    /\ UNCHANGED <<input, output, requests, client, now, op, issuedAt, deadline, chunks, outcome, sent,
                   raised, sentAtError>>

\* A faulty variant: an error completes the call with the chunks so far.
OnStreamErrorPartial(p, err, buffered) ==
    Settle(p, Resolved([resourceSpans |-> flatMapResourceSpans(buffered)]))

\* callback(err): the chunks buffered so far are not handed over.
OnStreamError(p, err, buffered) == Settle(p, Rejected(err))

\* stream.on('error', (err) => callback(err))
StreamError(c, err) ==
    /\ client.impl = GrpcImpl
    /\ op[c] \in STREAMING_METHODS
    /\ phase[c] = "open"
    /\ phase' = [phase EXCEPT ![c] = "errored"]
    /\ cbLog' = [cbLog EXCEPT ![c] = Append(@, "error")]
    /\ promise' = [promise EXCEPT ![c] = OnStreamError(@, err, chunks[c])]
    /\ raised' = [raised EXCEPT ![c] = err]
    /\ sentAtError' = [sentAtError EXCEPT ![c] = Len(sent[c])]
    /\ UNCHANGED <<input, output, requests, client, now, op, issuedAt, deadline, chunks, outcome, sent>>

(***************************************************************************)
(* The unary transport: makeUnaryRequest calls the callback once, with an  *)
(* error or with the response.                                             *)
(***************************************************************************)
UnaryResponses(o) ==
    IF o = "getServices"
    THEN {[services |-> <<>>], [services |-> <<"frontend", "backend">>]}
    ELSE {[operations |-> <<>>],
          [operations |-> <<[name |-> "GET /", spanKind |-> Some("server")],
                            [name |-> "job", spanKind |-> Some("")]>>]}

UnaryReply(c, response) ==
    /\ client.impl = GrpcImpl
    /\ op[c] \in Ops \ STREAMING_METHODS
    /\ phase[c] = "open"
    /\ phase' = [phase EXCEPT ![c] = "ended"]
    /\ cbLog' = [cbLog EXCEPT ![c] = Append(@, "response")]
    /\ promise' = [promise EXCEPT ![c] = Settle(@, Resolved(response))]
    /\ UNCHANGED <<input, output, requests, client, now, op, issuedAt, deadline, chunks, outcome, sent,
                   raised, sentAtError>>

UnaryError(c, err) ==
    /\ client.impl = GrpcImpl
    /\ op[c] \in Ops \ STREAMING_METHODS
    /\ phase[c] = "open"
    /\ phase' = [phase EXCEPT ![c] = "errored"]
    /\ cbLog' = [cbLog EXCEPT ![c] = Append(@, "error")]
    /\ promise' = [promise EXCEPT ![c] = Settle(@, Rejected(err))]
    /\ raised' = [raised EXCEPT ![c] = err]
    /\ sentAtError' = [sentAtError EXCEPT ![c] = Len(sent[c])]
    /\ UNCHANGED <<input, output, requests, client, now, op, issuedAt, deadline, chunks, outcome, sent>>

(***************************************************************************)
(* The streaming client after `await`: the response is converted, a        *)
(* rejection or a thrown conversion goes through _handleError.             *)
(***************************************************************************)
\* Faulty variants: every error rethrown; every error taken for a timeout.
GrpcHandleErrorRethrow(err, requestTimeoutMs) == Failure(err)

GrpcHandleErrorAllTimeout(err, requestTimeoutMs) ==
    IF err.code = Some(UNIMPLEMENTED) THEN EmptyResult
    ELSE Failure(NewError(formatRequestTimedOutMessage(requestTimeoutMs)))

GrpcHandleError(err, requestTimeoutMs) ==
    IF err.code = Some(UNIMPLEMENTED) THEN EmptyResult
    ELSE IF err.code = Some(DEADLINE_EXCEEDED)
    THEN Failure(NewError(formatRequestTimedOutMessage(requestTimeoutMs)))
    ELSE Failure(err)

GrpcReturn(o, response, requestTimeoutMs) ==
    CASE o = "getServices" -> Success({"services"}, response.services)
      [] o = "getOperations" ->
            Success({"operations"},
                    [k \in 1..Len(response.operations) |->
                        toOperation(response.operations[k])])
      [] OTHER ->
            IF \E k \in 1..Len(response.resourceSpans) :
                  toResourceSpansThrows(response.resourceSpans[k])
            THEN GrpcHandleError(TypeErrorNull, requestTimeoutMs)
            ELSE Success({"resourceSpans"},
                         [k \in 1..Len(response.resourceSpans) |->
                             toResourceSpans(response.resourceSpans[k])])

\* A faulty variant: a call that timed out doubles the client's timeout.
GrpcResumeBackoff(c) ==
    /\ client.impl = GrpcImpl
    /\ promise[c].st \in {"resolved", "rejected"}
    /\ outcome[c].kind = "none"
    /\ outcome' = [outcome EXCEPT ![c] =
           IF promise[c].st = "rejected"
           THEN GrpcHandleError(promise[c].err, client.requestTimeoutMs)
           ELSE GrpcReturn(op[c], promise[c].val, client.requestTimeoutMs)]
    /\ client' = IF promise[c].st = "rejected" /\ promise[c].err.code = Some(DEADLINE_EXCEEDED)
                 THEN [client EXCEPT !.requestTimeoutMs = 2 * @]
                 ELSE client
    /\ UNCHANGED <<input, output, requests, now, op, issuedAt, deadline, phase, chunks, cbLog,
                   promise, sent, raised, sentAtError>>

GrpcResume(c) ==
    /\ client.impl = GrpcImpl
    /\ promise[c].st \in {"resolved", "rejected"}
    /\ outcome[c].kind = "none"
    /\ outcome' = [outcome EXCEPT ![c] =
           IF promise[c].st = "rejected"
           THEN GrpcHandleError(promise[c].err, client.requestTimeoutMs)
           ELSE GrpcReturn(op[c], promise[c].val, client.requestTimeoutMs)]
    /\ UNCHANGED <<input, output, requests, client, now, op, issuedAt, deadline, phase, chunks, cbLog,
                   promise, sent, raised, sentAtError>>

(***************************************************************************)
(* The REST client.  JSON values: a number is its sign, integer part and   *)
(* fraction digits (s = "NaN" for NaN); a string is its text.              *)
(***************************************************************************)
JNumber(neg, n, frac) == [t |-> "number", neg |-> neg, n |-> n, s |-> frac]
JString(text) == [t |-> "string", neg |-> FALSE, n |-> 0, s |-> text]
JNaN == JNumber(FALSE, 0, "NaN")
JInfinity(neg) == JNumber(neg, 0, "Infinity")

\* A whole number of more than MaxSmallDigits digits is kept as the decimal
\* digits of its magnitude, after the mark "#".
MaxSmallDigits == 9
JBig(neg, digits) == JNumber(neg, 0, "#" \o digits)

StartsWith(s, prefix) == Len(s) >= Len(prefix) /\ SubSeq(s, 1, Len(prefix)) = prefix

Digits == "0123456789"
IsDigit(ch) == \E i \in 1..Len(Digits) : SubSeq(Digits, i, i) = ch
DigitValue(ch) == (CHOOSE i \in 1..Len(Digits) : SubSeq(Digits, i, i) = ch) - 1

RECURSIVE SkipSpaces(_)
SkipSpaces(s) ==
    IF Len(s) > 0 /\ SubSeq(s, 1, 1) = " " THEN SkipSpaces(SubSeq(s, 2, Len(s))) ELSE s

RECURSIVE DigitPrefix(_)
DigitPrefix(s) ==
    IF Len(s) > 0 /\ IsDigit(SubSeq(s, 1, 1))
    THEN SubSeq(s, 1, 1) \o DigitPrefix(SubSeq(s, 2, Len(s)))
    ELSE ""

RECURSIVE DecimalValue(_)
DecimalValue(d) ==
    IF Len(d) = 0 THEN 0
    ELSE 10 * DecimalValue(SubSeq(d, 1, Len(d) - 1)) + DigitValue(SubSeq(d, Len(d), Len(d)))

RECURSIVE DropTrailingZeros(_)
DropTrailingZeros(d) ==
    IF Len(d) > 0 /\ SubSeq(d, Len(d), Len(d)) = "0"
    THEN DropTrailingZeros(SubSeq(d, 1, Len(d) - 1))
    ELSE d

HasSign(s) == Len(s) > 0 /\ SubSeq(s, 1, 1) \in {"-", "+"}
Unsigned(s) == IF HasSign(s) THEN SubSeq(s, 2, Len(s)) ELSE s
IsNegative(s) == Len(s) > 0 /\ SubSeq(s, 1, 1) = "-"

RECURSIVE StripLeadingZeros(_)
StripLeadingZeros(d) ==
    IF Len(d) > 1 /\ SubSeq(d, 1, 1) = "0"
    THEN StripLeadingZeros(SubSeq(d, 2, Len(d)))
    ELSE d

\* a <= b for numerals of equal length.
RECURSIVE DigitsLeqSameLen(_, _)
DigitsLeqSameLen(a, b) ==
    IF Len(a) = 0 THEN TRUE
    ELSE LET x == DigitValue(SubSeq(a, 1, 1))
             y == DigitValue(SubSeq(b, 1, 1))
         IN  IF x # y THEN x < y
             ELSE DigitsLeqSameLen(SubSeq(a, 2, Len(a)), SubSeq(b, 2, Len(b)))

\* a <= b for numerals without leading zeros.
DigitsLeq(a, b) ==
    Len(a) < Len(b) \/ (Len(a) = Len(b) /\ DigitsLeqSameLen(a, b))

RECURSIVE DigitsSucc(_)
DigitsSucc(d) ==
    IF Len(d) = 0 THEN "1"
    ELSE LET last == DigitValue(SubSeq(d, Len(d), Len(d)))
             init == SubSeq(d, 1, Len(d) - 1)
         IN  IF last = 9 THEN DigitsSucc(init) \o "0"
             ELSE init \o SubSeq(Digits, last + 2, last + 2)

\* The predecessor of a numeral that does not end in 0.
DigitsPred(d) ==
    LET last == DigitValue(SubSeq(d, Len(d), Len(d)))
    IN  SubSeq(d, 1, Len(d) - 1) \o SubSeq(Digits, last, last)

\* A JavaScript number holds every whole number up to 2^53; from 2^53 to
\* 2^54 it holds the even ones, and an odd one is rounded to the neighbour
\* that is a multiple of 4 (round half to even).  Numerals up to 2^54.
TwoPow53 == "9007199254740992"

ToDoubleDigits(d) ==
    IF DigitsLeq(d, TwoPow53) THEN d
    ELSE LET mod4 == DecimalValue(SubSeq(d, Len(d) - 1, Len(d))) % 4
         IN  IF mod4 = 1 THEN DigitsPred(d)
             ELSE IF mod4 = 3 THEN DigitsSucc(d)
             ELSE d

\* parseInt(text) on decimal numerals: leading blanks, a sign, the digits up
\* to the first other character; NaN without a digit.
ParseInt(text) ==
    LET t == SkipSpaces(text)
        d == StripLeadingZeros(DigitPrefix(Unsigned(t)))
    IN  IF d = "" THEN JNaN
        ELSE IF Len(d) <= MaxSmallDigits
             THEN JNumber(IsNegative(t), DecimalValue(d), "")
             ELSE JBig(IsNegative(t), ToDoubleDigits(d))

\* parseFloat(text) on decimal numerals without an exponent.
ParseFloat(text) ==
    LET t == SkipSpaces(text)
        u == Unsigned(t)
        d == DigitPrefix(u)
        rest == SubSeq(u, Len(d) + 1, Len(u))
        f == IF Len(rest) > 0 /\ SubSeq(rest, 1, 1) = "."
             THEN DigitPrefix(SubSeq(rest, 2, Len(rest))) ELSE ""
    IN  IF StartsWith(u, "Infinity") THEN JInfinity(IsNegative(t))
        ELSE IF d = "" /\ f = "" THEN JNaN
        ELSE JNumber(IsNegative(t), DecimalValue(d), DropTrailingZeros(f))

normalizeAttribute(attribute) ==
    IF attribute.value = None THEN attribute
    ELSE LET v == attribute.value[1]
             iv == IF v.intValue # None /\ v.intValue[1].t = "string"
                   THEN Some(ParseInt(v.intValue[1].s)) ELSE v.intValue
             dv == IF v.doubleValue # None /\ v.doubleValue[1].t = "string"
                   THEN Some(ParseFloat(v.doubleValue[1].s)) ELSE v.doubleValue
         IN  [attribute EXCEPT !.value =
                 Some([v EXCEPT !.intValue = iv, !.doubleValue = dv])]

\* x.attributes = x.attributes?.map(normalizeAttribute)
normalizeAttributes(attributes) ==
    IF attributes = None THEN None
    ELSE Some([k \in 1..Len(attributes[1]) |-> normalizeAttribute(attributes[1][k])])

normalizeResource(resource) ==
    [resource EXCEPT !.attributes = normalizeAttributes(@)]

normalizeInstrumentationScope(scope) ==
    [scope EXCEPT !.attributes = normalizeAttributes(@)]

normalizeEvent(event) == [event EXCEPT !.attributes = normalizeAttributes(@)]

normalizeLinkAsIs(link) == link

normalizeLink(link) == [link EXCEPT !.attributes = normalizeAttributes(@)]

normalizeSpan(span) ==
    [span EXCEPT
        !.kind = IF @ # None /\ @[1].t = "number"
                 THEN (IF @[1].neg \/ @[1].s # ""
                       THEN None
                       ELSE LET k == toSpanKindOfNumber(Some(@[1].n))
                            IN  IF k = None THEN None ELSE Some(JString(k[1])))
                 ELSE @,
        !.attributes = normalizeAttributes(@),
        !.events = IF @ = None THEN None
                   ELSE Some([k \in 1..Len(@[1]) |-> normalizeEvent(@[1][k])]),
        !.links = IF @ = None THEN None
                  ELSE Some([k \in 1..Len(@[1]) |-> normalizeLink(@[1][k])])]

HttpRevNamed == "jaeger-http-client.ts"
HttpRev3 == "part_003"
HttpRev2 == "part_002"
HttpImpls == {HttpRevNamed, HttpRev3, HttpRev2}

EmptyJsonObject == [attributes |-> None]

\* Only the latest revision reads `resource ?? {}` and `scope ?? {}`; the
\* other two dereference an absent resource or scope and throw.
normalizeScopeSpansThrows(rev, ss) == rev # HttpRev2 /\ ss.scope = None

normalizeScopeSpans(rev, ss) ==
    [ss EXCEPT
        !.scope = Some(normalizeInstrumentationScope(
                          IF @ = None THEN EmptyJsonObject ELSE @[1])),
        !.spans = IF @ = None THEN None
                  ELSE Some([k \in 1..Len(@[1]) |-> normalizeSpan(@[1][k])])]

normalizeResourceSpansThrows(rev, rs) ==
    \/ rev # HttpRev2 /\ rs.resource = None
    \/ /\ rs.scopeSpans # None
       /\ \E k \in 1..Len(rs.scopeSpans[1]) :
             normalizeScopeSpansThrows(rev, rs.scopeSpans[1][k])

normalizeResourceSpans(rev, rs) ==
    [rs EXCEPT
        !.resource = Some(normalizeResource(
                             IF @ = None THEN EmptyJsonObject ELSE @[1])),
        !.scopeSpans = IF @ = None THEN None
                       ELSE Some([k \in 1..Len(@[1]) |->
                                     normalizeScopeSpans(rev, @[1][k])])]

TypeErrorUndefined == MkError("client", None,
                              "Cannot read properties of undefined (reading 'resourceSpans')",
                              None, None)

(* The transport of the REST client: axios.get resolves with a response    *)
(* whose status is 2xx, or rejects with an error.                          *)
JsonRs(resource) == [resource |-> resource, scopeSpans |-> None]

JsonBody(services, operations, result) ==
    [services |-> services, operations |-> operations, result |-> result]

HttpBodies(o) ==
    CASE o = "getServices" ->
            {JsonBody(None, None, None), JsonBody(Some(<<"frontend">>), None, None)}
      [] o = "getOperations" ->
            {JsonBody(None, None, None),
             JsonBody(None, Some(<<[name |-> "GET /", spanKind |-> "server"],
                                   [name |-> "job", spanKind |-> ""]>>), None)}
      [] OTHER ->
            {JsonBody(None, None, None),
             JsonBody(None, None, Some([resourceSpans |-> None])),
             JsonBody(None, None, Some([resourceSpans |-> Some(<<>>)])),
             JsonBody(None, None,
                      Some([resourceSpans |-> Some(<<JsonRs(Some(EmptyJsonObject))>>)])),
             JsonBody(None, None, Some([resourceSpans |-> Some(<<JsonRs(None)>>)]))}

HttpResponses(o) == [status : {200, 204}, data : HttpBodies(o)]

HttpResponsesLean(o) == [status : {200}, data : {JsonBody(None, None, None)}]

StatusText(status) == "Request failed with status code " \o ToString(status)

\* The rejections of axios.get: a response outside 2xx (err.response.status
\* is set; err.status is set by recent axios versions only), a bare object
\* that carries only the response, a refused connection, a connection the
\* peer aborted, a name lookup that timed out, and, once the request has
\* taken requestTimeoutMs, the client-side timeout.
HttpTimeouts(c) ==
    IF now >= deadline[c]
    THEN {MkError("transport", Some("ECONNABORTED"),
                  "timeout of " \o ToString(client.requestTimeoutMs) \o "ms exceeded",
                  None, None)}
    ELSE {}

HttpErrors(c) ==
    UNION {{MkError("transport", Some("ERR_BAD_REQUEST"), StatusText(st), own, Some(st)) :
               own \in {None, Some(st)}} : st \in {HTTP_STATUS_CODE_NOT_FOUND, 500}}
      \cup {MkError("transport", None, "", None, Some(HTTP_STATUS_CODE_NOT_FOUND)),
            MkError("transport", Some("ECONNREFUSED"),
                    "connect ECONNREFUSED 127.0.0.1:16686", None, None),
            MkError("transport", Some("ECONNABORTED"), "read ECONNABORTED", None, None),
            MkError("transport", Some("ETIMEOUT"), "queryA ETIMEOUT jaeger", None, None)}
      \cup HttpTimeouts(c)

HttpErrorsLean(c) ==
    {MkError("transport", Some("ERR_BAD_REQUEST"), StatusText(500), None, Some(500))}
      \cup HttpTimeouts(c)

HttpRespond(c, response) ==
    /\ client.impl \in HttpImpls
    /\ phase[c] = "open"
    /\ phase' = [phase EXCEPT ![c] = "ended"]
    /\ promise' = [promise EXCEPT ![c] = Settle(@, Resolved(response))]
    /\ UNCHANGED <<input, output, requests, client, now, op, issuedAt, deadline, chunks, cbLog, outcome,
                   sent, raised, sentAtError>>

HttpReject(c, err) ==
    /\ client.impl \in HttpImpls
    /\ phase[c] = "open"
    /\ phase' = [phase EXCEPT ![c] = "errored"]
    /\ promise' = [promise EXCEPT ![c] = Settle(@, Rejected(err))]
    /\ raised' = [raised EXCEPT ![c] = err]
    /\ UNCHANGED <<input, output, requests, client, now, op, issuedAt, deadline, chunks, cbLog, outcome,
                   sent, sentAtError>>

(***************************************************************************)
(* The REST client after `await axios.get`: _get rejects a status other    *)
(* than 200, the operation reads the document, and whatever is thrown goes *)
(* through the revision's _handleError.                                    *)
(***************************************************************************)
\* err?.response?.status ?? err?.status (the named revision reads err.status).
ErrorStatus(rev, err) ==
    IF rev = HttpRevNamed THEN err.status
    ELSE IF err.responseStatus # None THEN err.responseStatus ELSE err.status

IsTimeout(err) ==
    \/ err.code = Some("ECONNABORTED")
    \/ (err.message # "" /\ Includes(ToLowerCase(err.message), "timeout"))

HttpHandleError(rev, err, requestTimeoutMs) ==
    IF ErrorStatus(rev, err) = Some(HTTP_STATUS_CODE_NOT_FOUND) THEN EmptyResult
    ELSE IF rev # HttpRevNamed /\ IsTimeout(err)
    THEN Failure(NewError(formatRequestTimedOutMessage(requestTimeoutMs)))
    ELSE Failure(err)

\* A field that is undefined is absent from the response the caller gets.
FieldResult(field, value) ==
    IF value = None THEN Success({}, <<>>) ELSE Success({field}, value[1])

HttpTraces(rev, spans, requestTimeoutMs) ==
    IF \E k \in 1..Len(spans) : normalizeResourceSpansThrows(rev, spans[k])
    THEN HttpHandleError(rev, TypeErrorUndefined, requestTimeoutMs)
    ELSE Success({"resourceSpans"},
                 [k \in 1..Len(spans) |-> normalizeResourceSpans(rev, spans[k])])

HttpReturn(rev, o, data, requestTimeoutMs) ==
    CASE o = "getServices" -> FieldResult("services", data.services)
      [] o = "getOperations" -> FieldResult("operations", data.operations)
      [] o = "getTrace" /\ rev # HttpRev2 ->
            \* httpResponse.result.resourceSpans, then resourceSpans.map
            IF data.result = None \/ data.result[1].resourceSpans = None
            THEN HttpHandleError(rev, TypeErrorUndefined, requestTimeoutMs)
            ELSE HttpTraces(rev, data.result[1].resourceSpans[1], requestTimeoutMs)
      [] OTHER ->
            \* httpResponse.result?.resourceSpans ?? []
            IF data.result = None \/ data.result[1].resourceSpans = None
            THEN HttpTraces(rev, <<>>, requestTimeoutMs)
            ELSE HttpTraces(rev, data.result[1].resourceSpans[1], requestTimeoutMs)

\* try { await this._get(...); ... } catch (err) { return this._handleError(err) }
HttpOutcome(c) ==
    IF promise[c].st = "rejected"
    THEN HttpHandleError(client.impl, promise[c].err, client.requestTimeoutMs)
    ELSE IF promise[c].val.status # 200
    THEN HttpHandleError(client.impl,
                         NewError(StatusText(promise[c].val.status)),
                         client.requestTimeoutMs)
    ELSE HttpReturn(client.impl, op[c], promise[c].val.data,
                    client.requestTimeoutMs)

\* A faulty variant: a rejected request is issued once more.
HttpResumeRetry(c) ==
    /\ client.impl \in HttpImpls
    /\ promise[c].st \in {"resolved", "rejected"}
    /\ outcome[c].kind = "none"
    /\ IF promise[c].st = "rejected" /\ requests[c] < 2
       THEN /\ requests' = [requests EXCEPT ![c] = @ + 1]
            /\ phase' = [phase EXCEPT ![c] = "open"]
            /\ promise' = [promise EXCEPT ![c] = Pending]
            /\ UNCHANGED outcome
       ELSE /\ outcome' = [outcome EXCEPT ![c] = HttpOutcome(c)]
            /\ UNCHANGED <<requests, phase, promise>>
    /\ UNCHANGED <<input, output, client, now, op, issuedAt, deadline, chunks,
                   cbLog, sent, raised, sentAtError>>

HttpResume(c) ==
    /\ client.impl \in HttpImpls
    /\ promise[c].st \in {"resolved", "rejected"}
    /\ outcome[c].kind = "none"
    /\ outcome' = [outcome EXCEPT ![c] = HttpOutcome(c)]
    /\ UNCHANGED <<input, output, requests, client, now, op, issuedAt, deadline, phase, chunks, cbLog,
                   promise, sent, raised, sentAtError>>

(***************************************************************************)
(* Two specifications.  Spec follows one call through everything the      *)
(* transport can do to it.  SpecConcurrent issues MaxCalls calls that run  *)
(* concurrently on the one client, with one shape of chunk and one status  *)
(* besides the ones the client singles out.                                *)
(***************************************************************************)
OneChunk(c, k) == {[resourceSpans |-> Some(<<WireRs(c, k, 1, Some(WireResource))>>)]}

Step(cs, lean) ==
    \/ Tick
    \/ \E c \in cs, o \in Ops : Issue(c, o)
    \/ \E c \in cs :
          \E data \in (IF lean THEN OneChunk(c, Len(sent[c]) + 1)
                       ELSE ChunkChoices(c, Len(sent[c]) + 1)) :
             StreamData(c, data)
    \/ \E c \in cs : StreamEnd(c)
    \/ \E c \in cs :
          \E err \in GrpcErrors(c, IF lean THEN {5} ELSE OtherGrpcStatus) :
             StreamError(c, err)
    \/ \E c \in cs, o \in Ops : \E r \in UnaryResponses(o) :
          op[c] = o /\ UnaryReply(c, r)
    \/ \E c \in cs :
          \E err \in GrpcErrors(c, IF lean THEN {5} ELSE OtherGrpcStatus) :
             UnaryError(c, err)
    \/ \E c \in cs : GrpcResume(c)
    \/ \E c \in cs, o \in Ops :
          \E r \in (IF lean THEN HttpResponsesLean(o) ELSE HttpResponses(o)) :
             op[c] = o /\ HttpRespond(c, r)
    \/ \E c \in cs :
          \E err \in (IF lean THEN HttpErrorsLean(c) ELSE HttpErrors(c)) :
             HttpReject(c, err)
    \/ \E c \in cs : HttpResume(c)

Next == Step({1}, FALSE)

Spec == Init /\ [][Next]_vars

NextConcurrent == Step(Calls, TRUE)

SpecConcurrent == InitConcurrent /\ [][NextConcurrent]_vars

(***************************************************************************)
(* Functions of the clients on their own.  Each specification below draws *)
(* an argument, applies one function to it and keeps what it returned:    *)
(* [ok |-> TRUE, val |-> v] for a value, [ok |-> FALSE, val |-> message]  *)
(* for a thrown Error.                                                     *)
(***************************************************************************)
Returned(v) == [ok |-> TRUE, val |-> v]
Thrown(message) == [ok |-> FALSE, val |-> message]

\* The variables a function applied on its own leaves alone.
callsUnchanged ==
    UNCHANGED <<now, op, issuedAt, deadline, phase, chunks, cbLog, promise,
                outcome, sent, raised, sentAtError, requests>>

(***************************************************************************)
(* Request encoding of the streaming client: _toTimestamp and _toDuration. *)
(* The argument is undefined (None) or a number of milliseconds.           *)
(***************************************************************************)
\* JavaScript's a % b for b > 0: the remainder has the sign of a.
JsRemainder(a, b) == IF a >= 0 THEN a % b ELSE 0 - ((0 - a) % b)

\* A faulty variant: the remainder scaled to microseconds.
toTimestampMicros(timestamp) ==
    IF timestamp = None \/ timestamp = Some(0) THEN None
    ELSE Some([seconds |-> timestamp[1] \div 1000,
               nanos |-> JsRemainder(timestamp[1], 1000) * 1000])

\* if (timestamp) { seconds: Math.floor(timestamp / 1000),
\*                  nanos: (timestamp % 1000) * 1_000_000 }
toTimestamp(timestamp) ==
    IF timestamp = None \/ timestamp = Some(0) THEN None
    ELSE Some([seconds |-> timestamp[1] \div 1000,
               nanos |-> JsRemainder(timestamp[1], 1000) * 1000000])

toDuration(duration) ==
    IF duration = None \/ duration = Some(0) THEN None
    ELSE Some([seconds |-> duration[1] \div 1000,
               nanos |-> JsRemainder(duration[1], 1000) * 1000000])

Milliseconds ==
    {None} \cup {Some(ms) : ms \in (0 - MaxMs)..MaxMs}
           \cup {Some(86400000), Some(1700000000), Some(2147483647)}

InitTimestamp ==
    /\ client = NoClient
    /\ CallsIdle
    /\ input \in {Some([fn |-> f, ms |-> ms]) :
                     f \in {"_toTimestamp", "_toDuration"}, ms \in Milliseconds}
    /\ output = None

ToTimestamp ==
    /\ output = None
    /\ input[1].fn = "_toTimestamp"
    /\ output' = Some(Returned(toTimestamp(input[1].ms)))
    /\ UNCHANGED <<client, input>>
    /\ callsUnchanged

ToDuration ==
    /\ output = None
    /\ input[1].fn = "_toDuration"
    /\ output' = Some(Returned(toDuration(input[1].ms)))
    /\ UNCHANGED <<client, input>>
    /\ callsUnchanged

NextTimestamp == ToTimestamp \/ ToDuration

SpecTimestamp == InitTimestamp /\ [][NextTimestamp]_vars

(***************************************************************************)
(* toSpanKind and toStatusCode (domain/utils.ts).  The argument is         *)
(* undefined (None), a number or a string, as a JSON value.                *)
(***************************************************************************)
statusCodeMapByString(s) ==
    IF \E i \in 1..Len(StatusCodeNames) : ToUpperCase(StatusCodeNames[i]) = s
    THEN Some(StatusCodeNames[CHOOSE i \in 1..Len(StatusCodeNames) :
                                  ToUpperCase(StatusCodeNames[i]) = s])
    ELSE None

toStatusCodeOfString(x) ==
    IF x = None \/ x = Some("") THEN None
    ELSE statusCodeMapByString(ToUpperCase(x[1]))

\* A number that is an index of no table: negative, fractional or NaN.
IsWholeNumber(v) == v.t = "number" /\ ~v.neg /\ v.s = ""

toSpanKind(spanKindAsStrOrNumber) ==
    IF spanKindAsStrOrNumber = None THEN None
    ELSE LET v == spanKindAsStrOrNumber[1]
         IN  IF v.t = "string" THEN toSpanKindOfString(Some(v.s))
             ELSE IF IsWholeNumber(v) THEN toSpanKindOfNumber(Some(v.n))
             ELSE None

toStatusCode(statusCodeAsStrOrNumber) ==
    IF statusCodeAsStrOrNumber = None THEN None
    ELSE LET v == statusCodeAsStrOrNumber[1]
         IN  IF v.t = "string" THEN toStatusCodeOfString(Some(v.s))
             ELSE IF IsWholeNumber(v) THEN toStatusCodeOfNumber(Some(v.n))
             ELSE None

EnumArguments ==
    {None}
      \cup {Some(JNumber(FALSE, n, "")) : n \in 0..MaxCode}
      \cup {Some(JNumber(TRUE, 1, "")), Some(JNumber(FALSE, 1, "5")), Some(JNaN)}
      \cup {Some(JString(t)) :
               t \in {"", "server", "SERVER", "Server", "unspecified", "INTERNAL",
                      "client", "producer", "CONSUMER", "unset", "OK", "Error",
                      "SPAN_KIND_SERVER", "2"}}

InitEnum ==
    /\ client = NoClient
    /\ CallsIdle
    /\ input \in {Some([fn |-> f, arg |-> a]) :
                     f \in {"toSpanKind", "toStatusCode"}, a \in EnumArguments}
    /\ output = None

ToSpanKind ==
    /\ output = None
    /\ input[1].fn = "toSpanKind"
    /\ output' = Some(Returned(toSpanKind(input[1].arg)))
    /\ UNCHANGED <<client, input>>
    /\ callsUnchanged

ToStatusCode ==
    /\ output = None
    /\ input[1].fn = "toStatusCode"
    /\ output' = Some(Returned(toStatusCode(input[1].arg)))
    /\ UNCHANGED <<client, input>>
    /\ callsUnchanged

NextEnum == ToSpanKind \/ ToStatusCode

SpecEnum == InitEnum /\ [][NextEnum]_vars

(***************************************************************************)
(* Endpoint resolution.  parseUrlAndPort serves the REST client (the named *)
(* revision carries the same code as a static method); _createQueryService *)
(* resolves the endpoint of the streaming client.                          *)
(***************************************************************************)
DEFAULT_PORT == 16686
GRPC_DEFAULT_PORT == 16685
SECURE_URL_PORT == 443
URL_SCHEMA_SEPARATOR == "://"
SECURE_URL_SCHEMA == "https://"
INSECURE_URL_SCHEMA == "http://"

\* s.indexOf(sub): the first 0-based position of sub in s, or -1.
IndexOf(s, sub) ==
    LET at == {i \in 1..(Len(s) - Len(sub) + 1) : SubSeq(s, i, i + Len(sub) - 1) = sub}
    IN  IF at = {} THEN 0 - 1
        ELSE (CHOOSE i \in at : \A j \in at : i <= j) - 1

RECURSIVE DigitSuffix(_)
DigitSuffix(s) ==
    IF Len(s) > 0 /\ IsDigit(SubSeq(s, Len(s), Len(s)))
    THEN DigitSuffix(SubSeq(s, 1, Len(s) - 1)) \o SubSeq(s, Len(s), Len(s))
    ELSE ""

\* s.match(/^(.+):(\d+)$/): the digits run to the end of s, a colon stands
\* before them and at least one character before the colon.
MatchUrlPort(s) ==
    LET d == DigitSuffix(s)
        colon == Len(s) - Len(d)
    IN  IF Len(d) >= 1 /\ colon >= 2 /\ SubSeq(s, colon, colon) = ":"
        THEN Some(<<SubSeq(s, 1, colon - 1), d>>)
        ELSE None

parseUrlAndPortAlwaysHttp(url, configPort) ==
    LET normalized == IF IndexOf(url, URL_SCHEMA_SEPARATOR) < 0
                      THEN INSECURE_URL_SCHEMA \o url ELSE url
        match == MatchUrlPort(normalized)
    IN  IF match # None
        THEN [url |-> match[1][1], port |-> DecimalValue(match[1][2])]
        ELSE [url |-> normalized,
              port |-> IF configPort # None THEN configPort[1]
                       ELSE IF StartsWith(normalized, SECURE_URL_SCHEMA)
                            THEN SECURE_URL_PORT ELSE DEFAULT_PORT]

parseUrlAndPortConfigFirst(url, configPort) ==
    LET schemaIdx == IndexOf(url, URL_SCHEMA_SEPARATOR)
        normalized == IF schemaIdx < 0
                      THEN (IF configPort = Some(SECURE_URL_PORT)
                            THEN SECURE_URL_SCHEMA \o url
                            ELSE INSECURE_URL_SCHEMA \o url)
                      ELSE url
        match == MatchUrlPort(normalized)
    IN  IF match # None
        THEN [url |-> match[1][1],
              port |-> IF configPort # None THEN configPort[1]
                       ELSE DecimalValue(match[1][2])]
        ELSE [url |-> normalized,
              port |-> IF configPort # None THEN configPort[1]
                       ELSE IF StartsWith(normalized, SECURE_URL_SCHEMA)
                            THEN SECURE_URL_PORT ELSE DEFAULT_PORT]

parseUrlAndPort(url, configPort) ==
    LET schemaIdx == IndexOf(url, URL_SCHEMA_SEPARATOR)
        normalized == IF schemaIdx < 0
                      THEN (IF configPort = Some(SECURE_URL_PORT)
                            THEN SECURE_URL_SCHEMA \o url
                            ELSE INSECURE_URL_SCHEMA \o url)
                      ELSE url
        match == MatchUrlPort(normalized)
    IN  IF match # None
        THEN [url |-> match[1][1], port |-> DecimalValue(match[1][2])]
        ELSE [url |-> normalized,
              port |-> IF configPort # None THEN configPort[1]
                       ELSE IF StartsWith(normalized, SECURE_URL_SCHEMA)
                            THEN SECURE_URL_PORT ELSE DEFAULT_PORT]

RECURSIVE StripTrailingSlashes(_)
StripTrailingSlashes(s) ==
    IF Len(s) > 0 /\ SubSeq(s, Len(s), Len(s)) = "/"
    THEN StripTrailingSlashes(SubSeq(s, 1, Len(s) - 1))
    ELSE s

normalizeUrl(url) ==
    LET schemaIdx == IndexOf(url, URL_SCHEMA_SEPARATOR)
    IN  StripTrailingSlashes(
            IF schemaIdx >= 0
            THEN SubSeq(url, schemaIdx + Len(URL_SCHEMA_SEPARATOR) + 1, Len(url))
            ELSE url)

isSecureUrl(url, port) ==
    IF StartsWith(url, SECURE_URL_SCHEMA) THEN TRUE
    ELSE IF StartsWith(url, INSECURE_URL_SCHEMA) THEN FALSE
    ELSE port = SECURE_URL_PORT

\* The constructor passes `clientConfigurations.port || DEFAULT_PORT`; the
\* result is the address dialled and the kind of channel credentials.
createQueryService(url, configPort) ==
    LET port == IF configPort = None \/ configPort = Some(0)
                THEN GRPC_DEFAULT_PORT ELSE configPort[1]
        normalizedUrl == normalizeUrl(url)
        d == DigitSuffix(normalizedUrl)
        hasPort == /\ Len(d) >= 1
                   /\ Len(normalizedUrl) > Len(d)
                   /\ SubSeq(normalizedUrl, Len(normalizedUrl) - Len(d),
                             Len(normalizedUrl) - Len(d)) = ":"
    IN  [serverUrl |-> IF hasPort THEN normalizedUrl
                       ELSE normalizedUrl \o ":" \o ToString(port),
         secure |-> isSecureUrl(url, port)]

\* An endpoint is written as scheme, host, port and path, any of the last
\* three possibly empty; the port is kept as text and as its value.
EndpointParts ==
    [scheme : {"", "http://", "https://", "HTTPS://", "dns://"},
     host : {"localhost", "jaeger.example.com", "10.0.0.7", "[::1]"},
     port : {[text |-> "", n |-> 0], [text |-> ":16764", n |-> 16764],
             [text |-> ":443", n |-> 443], [text |-> ":08443", n |-> 8443],
             [text |-> ":0", n |-> 0]},
     path : {"", "/jaeger"}]

EndpointUrl(e) == e.scheme \o e.host \o e.port.text \o e.path

ConfigPorts == {None, Some(0), Some(SECURE_URL_PORT), Some(DEFAULT_PORT),
                Some(GRPC_DEFAULT_PORT), Some(9999)}

InitUrl ==
    /\ client = NoClient
    /\ CallsIdle
    /\ input \in {Some([fn |-> f, endpoint |-> e, configPort |-> cp]) :
                     f \in {"parseUrlAndPort", "_createQueryService"},
                     e \in EndpointParts, cp \in ConfigPorts}
    /\ output = None

ParseUrlAndPort ==
    /\ output = None
    /\ input[1].fn = "parseUrlAndPort"
    /\ output' = Some(Returned(parseUrlAndPort(EndpointUrl(input[1].endpoint),
                                               input[1].configPort)))
    /\ UNCHANGED <<client, input>>
    /\ callsUnchanged

CreateQueryService ==
    /\ output = None
    /\ input[1].fn = "_createQueryService"
    /\ output' = Some(Returned(createQueryService(EndpointUrl(input[1].endpoint),
                                                  input[1].configPort)))
    /\ UNCHANGED <<client, input>>
    /\ callsUnchanged

NextUrl == ParseUrlAndPort \/ CreateQueryService

SpecUrl == InitUrl /\ [][NextUrl]_vars

(***************************************************************************)
(* createClient (client/index.ts).  The argument is the environment        *)
(* variable JAEGER_PROTOCOL (None: not set) and the client configuration.  *)
(***************************************************************************)
HttpClass == "JaegerHttpClient"

ProtocolValues ==
    {None} \cup {Some(v) : v \in {"", "GRPC", "grpc", "Grpc", "HTTP", "http", "hTTp",
                                  "HTTPS", "GRPC ", "REST", "rest", "streaming",
                                  "tcp", "0"}}

\* requestTimeoutMs is any number the caller hands over, or undefined.
ClientConfigurations ==
    [url : {"localhost"}, port : {None, Some(443), Some(16685)},
     requestTimeoutMs : ConfigTimeouts \cup {Some(0), Some(0 - 5), Some(1)}]

\* A faulty variant: an unknown protocol falls back to the default client.
createClientLenient(protocol, clientConfigurations) ==
    IF protocol # None /\ ToUpperCase(protocol[1]) = "HTTP"
    THEN Returned(HttpClass) ELSE Returned(GrpcImpl)

\* The class of the client createClient returns, or the Error it throws.
createClient(protocol, clientConfigurations) ==
    IF protocol # None /\ protocol[1] # ""
    THEN IF ToUpperCase(protocol[1]) = "GRPC" THEN Returned(GrpcImpl)
         ELSE IF ToUpperCase(protocol[1]) = "HTTP" THEN Returned(HttpClass)
         ELSE Thrown("Invalid Jaeger protocol: " \o protocol[1])
    ELSE Returned(GrpcImpl)

InitCreateClient ==
    /\ client = NoClient
    /\ CallsIdle
    /\ input \in {Some([protocol |-> p, config |-> cfg]) :
                     p \in ProtocolValues, cfg \in ClientConfigurations}
    /\ output = None

\* new JaegerGrpcClient(clientConfigurations) / new JaegerHttpClient(...): the
\* REST client is one of the revisions of jaeger-http-client.ts.
CreateClient ==
    /\ output = None
    /\ LET made == createClient(input[1].protocol, input[1].config)
           timeout == RequestTimeoutOf(input[1].config.requestTimeoutMs)
       IN  /\ output' = Some(made)
           /\ IF ~made.ok THEN client' = client
              ELSE IF made.val = GrpcImpl
              THEN client' =
                      [impl |-> GrpcImpl, requestTimeoutMs |-> timeout,
                       baseUrl |-> createQueryService(input[1].config.url,
                                                      input[1].config.port).serverUrl,
                       authorizationHeader |-> None]
              ELSE LET parsed == parseUrlAndPort(input[1].config.url,
                                                 input[1].config.port)
                   IN  client' \in
                          [impl : HttpImpls, requestTimeoutMs : {timeout},
                           baseUrl : {parsed.url \o ":" \o ToString(parsed.port)},
                           authorizationHeader : {None}]
    /\ UNCHANGED input
    /\ callsUnchanged

NextCreateClient == CreateClient

SpecCreateClient == InitCreateClient /\ [][NextCreateClient]_vars

(***************************************************************************)
(* Decoding of one resource-spans on either transport.  The backend's      *)
(* message holds one span with one event and one link; the same attribute  *)
(* stands at each of the five levels.                                      *)
(***************************************************************************)
\* AnyValue as protobufjs decodes it: the member of the oneof that was sent
\* holds its value, the others are null.
WireValue(member, v) ==
    [stringValue |-> IF member = "stringValue" THEN Some(v.s) ELSE None,
     boolValue |-> IF member = "boolValue" THEN Some(v.b) ELSE None,
     intValue |-> IF member = "intValue" THEN Some(v.n) ELSE None,
     doubleValue |-> IF member = "doubleValue" THEN Some(v.n) ELSE None]

WireKeyValues ==
    {[key |-> "k", value |-> None]}
      \cup {[key |-> "k", value |-> Some(WireValue("stringValue", [s |-> t]))] :
               t \in {"", "GET"}}
      \cup {[key |-> "k", value |-> Some(WireValue("boolValue", [b |-> t]))] :
               t \in BOOLEAN}
      \cup {[key |-> "k", value |-> Some(WireValue(m, [n |-> t]))] :
               m \in {"intValue", "doubleValue"}, t \in {0, 42}}

WireStatuses ==
    {None} \cup {Some([code |-> Some(k), message |-> m]) :
                    k \in 0..Len(StatusCodeNames), m \in {"", "boom"}}

WireKinds == {None} \cup {Some(k) : k \in 0..Len(SpanKindNames)}

\* The ids of a span as bytes; its link points at the same trace and span.
TraceIdBytes == <<0, 17, 34, 51, 68, 85, 102, 119, 136, 153, 170, 187, 204, 221, 238, 255>>
SpanIdBytes == <<0, 1, 35, 69, 171, 205, 239, 254>>

WireIds ==
    {[traceId |-> Some(TraceIdBytes), spanId |-> Some(SpanIdBytes), parentSpanId |-> p] :
        p \in {None, Some(<<>>), Some(SpanIdBytes)}}
      \cup {[traceId |-> Some(SpanIdBytes), spanId |-> Some(SpanIdBytes),
              parentSpanId |-> None],
             [traceId |-> None, spanId |-> Some(<<>>), parentSpanId |-> None]}

WireSpan(kind, status, kv, ids) ==
    [traceId |-> ids.traceId, spanId |-> ids.spanId, traceState |-> "",
     parentSpanId |-> ids.parentSpanId, name |-> "GET /", kind |-> kind,
     startTimeUnixNano |-> None, endTimeUnixNano |-> None,
     attributes |-> <<kv>>, droppedAttributesCount |-> 0,
     events |-> <<[name |-> "e", timeUnixNano |-> None, attributes |-> <<kv>>,
                   droppedAttributesCount |-> 0]>>,
     droppedEventsCount |-> 0,
     links |-> <<[traceId |-> ids.traceId, spanId |-> ids.spanId, traceState |-> "",
                  attributes |-> <<kv>>, droppedAttributesCount |-> 0]>>,
     droppedLinksCount |-> 0,
     status |-> status]

WireTree(kind, status, kv, ids) ==
    [resource |-> Some([attributes |-> <<kv>>, droppedAttributesCount |-> 0]),
     scopeSpans |-> <<[scope |-> Some([name |-> "lib", version |-> "",
                                       attributes |-> <<kv>>,
                                       droppedAttributesCount |-> 0]),
                       spans |-> <<WireSpan(kind, status, kv, ids)>>,
                       schemaUrl |-> ""]>>,
     schemaUrl |-> ""]

\* The same message as JSON: a numeral is written with its sign, digits and
\* fraction so that its value is known apart from its text.
Numeral(text, v) == [text |-> text, v |-> v]

\* int64 values: protobuf's JSON mapping writes them as decimal strings.
IntNumerals ==
    {Numeral("0", JNumber(FALSE, 0, "")),
     Numeral("42", JNumber(FALSE, 42, "")),
     Numeral("-7", JNumber(TRUE, 7, "")),
     Numeral("1700000000000", JBig(FALSE, "1700000000000")),
     Numeral("9007199254740992", JBig(FALSE, "9007199254740992")),
     Numeral("9007199254740993", JBig(FALSE, "9007199254740993")),
     Numeral("-9007199254740995", JBig(TRUE, "9007199254740995")),
     Numeral("9007199254740999", JBig(FALSE, "9007199254740999"))}

DoubleNumerals ==
    {Numeral("0", JNumber(FALSE, 0, "")),
     Numeral("2.5", JNumber(FALSE, 2, "5")),
     Numeral("-0.125", JNumber(TRUE, 0, "125")),
     Numeral("3.50", JNumber(FALSE, 3, "5")),
     Numeral("17", JNumber(FALSE, 17, "")),
     Numeral("NaN", JNaN),
     Numeral("-Infinity", JInfinity(TRUE))}

JsonValue(member, v) ==
    [stringValue |-> IF member = "stringValue" THEN Some(v) ELSE None,
     boolValue |-> IF member = "boolValue" THEN Some(v) ELSE None,
     intValue |-> IF member = "intValue" THEN Some(v) ELSE None,
     doubleValue |-> IF member = "doubleValue" THEN Some(v) ELSE None]

JsonKeyValues ==
    {[key |-> "k", value |-> None],
     [key |-> "k", value |-> Some(JsonValue("stringValue", JString("GET")))],
     [key |-> "k", value |-> Some(JsonValue("boolValue", JString("false")))]}
      \cup {[key |-> "k", value |-> Some(JsonValue("intValue", j))] :
               j \in {JString(x.text) : x \in IntNumerals}
                        \cup {x.v : x \in IntNumerals}}
      \cup {[key |-> "k", value |-> Some(JsonValue("doubleValue", j))] :
               j \in {JString(x.text) : x \in DoubleNumerals}
                        \cup {x.v : x \in DoubleNumerals}}

JsonKinds ==
    {None, Some(JString("SPAN_KIND_SERVER"))}
      \cup {Some(JNumber(FALSE, k, "")) : k \in 0..Len(SpanKindNames)}

JsonStatuses ==
    {None, Some([code |-> Some(JString("STATUS_CODE_ERROR"))])}
      \cup {Some([code |-> Some(JNumber(FALSE, k, ""))]) : k \in 0..Len(StatusCodeNames)}

\* The ids of a span in a JSON body: text, or a member that is not there.
JsonIds ==
    {[traceId |-> Some("00112233445566778899aabbccddeeff"),
      spanId |-> Some("00012345abcdeffe"), parentSpanId |-> p] :
        p \in {None, Some(""), Some("00012345abcdeffe")}}
      \cup {[traceId |-> Some("00112233445566778899AABBCCDDEEFF"),
              spanId |-> Some("00012345ABCDEFFE"), parentSpanId |-> Some("")],
             [traceId |-> Some("ABEiM0RVZneImaq7zN3u/w=="),
              spanId |-> Some("AAEjRavN7/4="), parentSpanId |-> None]}

JsonTree(kind, status, kv, ids) ==
    [resource |-> Some([attributes |-> Some(<<kv>>)]),
     scopeSpans |-> Some(<<
        [scope |-> Some([attributes |-> Some(<<kv>>)]),
         spans |-> Some(<<
            [traceId |-> ids.traceId, spanId |-> ids.spanId,
             parentSpanId |-> ids.parentSpanId,
             kind |-> kind, status |-> status,
             attributes |-> Some(<<kv>>),
             events |-> Some(<<[attributes |-> Some(<<kv>>)]>>),
             links |-> Some(<<[traceId |-> ids.traceId, spanId |-> ids.spanId,
                               attributes |-> Some(<<kv>>)]>>)]>>)]>>)]

InitDecode ==
    /\ client \in {ClientFor(i, DEFAULT_REQUEST_TIMEOUT_MS) : i \in Impls}
    /\ CallsIdle
    /\ input \in IF client.impl = GrpcImpl
                 THEN {Some([kind |-> k, status |-> st, kv |-> kv, ids |-> ids]) :
                          k \in WireKinds, st \in WireStatuses, kv \in WireKeyValues,
                          ids \in WireIds}
                 ELSE {Some([kind |-> k, status |-> st, kv |-> kv, ids |-> ids]) :
                          k \in JsonKinds, st \in JsonStatuses, kv \in JsonKeyValues,
                          ids \in JsonIds}
    /\ output = None

\* gRPC: the data handler maps each resource-spans of a chunk.
GrpcDecode ==
    /\ output = None
    /\ client.impl = GrpcImpl
    /\ output' = Some(Returned(toResourceSpans(
                     WireTree(input[1].kind, input[1].status, input[1].kv, input[1].ids))))
    /\ UNCHANGED <<client, input>>
    /\ callsUnchanged

\* REST: getTrace and findTraces normalize the resource-spans of the body.
HttpNormalize ==
    /\ output = None
    /\ client.impl \in HttpImpls
    /\ output' = Some(Returned(normalizeResourceSpans(client.impl,
                     JsonTree(input[1].kind, input[1].status, input[1].kv, input[1].ids))))
    /\ UNCHANGED <<client, input>>
    /\ callsUnchanged

NextDecode == GrpcDecode \/ HttpNormalize

SpecDecode == InitDecode /\ [][NextDecode]_vars

(***************************************************************************)
(* The requests of getTrace and findTraces on either transport.  The       *)
(* argument is the request object of the call; the output is the request   *)
(* message handed to the query service (streaming client) or the query     *)
(* parameters handed to _get (REST client), where a parameter whose value  *)
(* is undefined (None) is left out of the URL.                             *)
(***************************************************************************)
ZeroPad(n, width) ==
    LET s == ToString(n)
    IN  IF Len(s) >= width THEN s ELSE SubSeq("0000", 1, width - Len(s)) \o s

\* The proleptic Gregorian date of a day number counted from 1970-01-01.
CivilFromDays(days) ==
    LET z   == days + 719468
        era == z \div 146097
        doe == z - era * 146097
        yoe == (doe - doe \div 1460 + doe \div 36524 - doe \div 146096) \div 365
        doy == doe - (365 * yoe + yoe \div 4 - yoe \div 100)
        mp  == (5 * doy + 2) \div 153
        m   == IF mp < 10 THEN mp + 3 ELSE mp - 9
    IN  [year  |-> yoe + era * 400 + (IF m <= 2 THEN 1 ELSE 0),
         month |-> m,
         day   |-> doy - (153 * mp + 2) \div 5 + 1]

\* new Date(ms).toISOString(), for dates of the years 0000 to 9999.
toISOString(ms) ==
    LET date == CivilFromDays(ms \div 86400000)
        rest == ms % 86400000
    IN  ZeroPad(date.year, 4) \o "-" \o ZeroPad(date.month, 2) \o "-"
            \o ZeroPad(date.day, 2) \o "T"
            \o ZeroPad(rest \div 3600000, 2) \o ":"
            \o ZeroPad((rest \div 60000) % 60, 2) \o ":"
            \o ZeroPad((rest \div 1000) % 60, 2) \o "."
            \o ZeroPad(rest % 1000, 3) \o "Z"

\* A faulty variant: only an undefined timestamp is left out.
toDateTimeStringOfDefined(timestamp) ==
    IF timestamp = None THEN None ELSE Some(toISOString(timestamp[1]))

\* if (timestamp) return new Date(timestamp).toISOString()
toDateTimeString(timestamp) ==
    IF timestamp = None \/ timestamp = Some(0) THEN None
    ELSE Some(toISOString(timestamp[1]))

\* if (durationMs) return `${durationMs}ms`
toDurationUnit(durationMs) ==
    IF durationMs = None \/ durationMs = Some(0) THEN None
    ELSE Some(ToString(durationMs[1]) \o "ms")

\* JSON.stringify of a string: quotes and backslashes are escaped.
RECURSIVE JsonEscape(_)
JsonEscape(s) ==
    IF Len(s) = 0 THEN s
    ELSE LET ch == SubSeq(s, 1, 1)
         IN  (IF ch = "\"" \/ ch = "\\" THEN "\\" \o ch ELSE ch)
                 \o JsonEscape(SubSeq(s, 2, Len(s)))

RECURSIVE JsonMembers(_)
JsonMembers(entries) ==
    IF Len(entries) = 0 THEN ""
    ELSE "\"" \o JsonEscape(entries[1][1]) \o "\":\"" \o JsonEscape(entries[1][2]) \o "\""
             \o (IF Len(entries) > 1 THEN "," ELSE "")
             \o JsonMembers(Tail(entries))

\* JSON.stringify of a map of strings, given as its entries in key order.
JsonStringify(entries) == "{" \o JsonMembers(entries) \o "}"

grpcGetTraceRequest(request) ==
    [traceId   |-> request.traceId,
     startTime |-> toTimestamp(request.startTime),
     endTime   |-> toTimestamp(request.endTime)]

grpcFindTracesRequest(request) ==
    [query |->
        [serviceName   |-> request.query.serviceName,
         operationName |-> request.query.operationName,
         attributes    |-> request.query.attributes,
         startTimeMin  |-> toTimestamp(request.query.startTimeMin),
         startTimeMax  |-> toTimestamp(request.query.startTimeMax),
         durationMin   |-> toDuration(request.query.durationMin),
         durationMax   |-> toDuration(request.query.durationMax),
         searchDepth   |-> request.query.searchDepth]]

httpGetTraceParams(request) ==
    ("startTime" :> toDateTimeString(request.startTime))
        @@ ("endTime" :> toDateTimeString(request.endTime))

\* The revision in jaeger-http-client.ts has no query.attributes; part_003
\* and part_002 add it for a map with at least one key.
httpFindTracesParams(revision, request) ==
    LET params ==
            ("query.service_name" :> request.query.serviceName)
                @@ ("query.operation_name" :> request.query.operationName)
                @@ ("query.start_time_min" :> toDateTimeString(request.query.startTimeMin))
                @@ ("query.start_time_max" :> toDateTimeString(request.query.startTimeMax))
                @@ ("query.duration_min" :> toDurationUnit(request.query.durationMin))
                @@ ("query.duration_max" :> toDurationUnit(request.query.durationMax))
                @@ ("query.search_depth" :> request.query.searchDepth)
    IN  IF /\ revision # HttpRevNamed
           /\ request.query.attributes # None
           /\ Len(request.query.attributes[1]) > 0
        THEN params @@ ("query.attributes" :> Some(JsonStringify(request.query.attributes[1])))
        ELSE params

\* Times of a request in milliseconds, absent, zero, before and after 1970.
RequestTimes == {None, Some(0), Some(0 - 1), Some(1500), Some(1700000000)}

RequestDurations == {None, Some(0), Some(250), Some(0 - 5)}

\* Attribute maps: absent, empty, one entry, two entries with a quote.
AttributeMaps ==
    {None, Some(<<>>), Some(<<<<"http.method", "GET">>>>),
     Some(<<<<"error", "true">>, <<"note", "say \"hi\"">>>>)}

GetTraceRequests ==
    [fn : {"getTrace"}, traceId : {"0af7651916cd43dd8448eb211c80319c"},
     startTime : RequestTimes, endTime : RequestTimes]

FindTracesRequests ==
    [fn : {"findTraces"},
     query : [serviceName : {Some("frontend")}, operationName : {None},
              attributes : AttributeMaps,
              startTimeMin : RequestTimes, startTimeMax : {None, Some(0), Some(86400000)},
              durationMin : RequestDurations, durationMax : {None, Some(0), Some(2500)},
              searchDepth : {Some(20)}]]

InitRequest ==
    /\ client \in {ClientFor(i, DEFAULT_REQUEST_TIMEOUT_MS) : i \in Impls}
    /\ CallsIdle
    /\ input \in {Some(r) : r \in GetTraceRequests \cup FindTracesRequests}
    /\ output = None

GrpcGetTraceRequest ==
    /\ output = None
    /\ client.impl = GrpcImpl
    /\ input[1].fn = "getTrace"
    /\ output' = Some(Returned(grpcGetTraceRequest(input[1])))
    /\ UNCHANGED <<client, input>>
    /\ callsUnchanged

GrpcFindTracesRequest ==
    /\ output = None
    /\ client.impl = GrpcImpl
    /\ input[1].fn = "findTraces"
    /\ output' = Some(Returned(grpcFindTracesRequest(input[1])))
    /\ UNCHANGED <<client, input>>
    /\ callsUnchanged

HttpGetTraceParams ==
    /\ output = None
    /\ client.impl \in HttpImpls
    /\ input[1].fn = "getTrace"
    /\ output' = Some(Returned(httpGetTraceParams(input[1])))
    /\ UNCHANGED <<client, input>>
    /\ callsUnchanged

HttpFindTracesParams ==
    /\ output = None
    /\ client.impl \in HttpImpls
    /\ input[1].fn = "findTraces"
    /\ output' = Some(Returned(httpFindTracesParams(client.impl, input[1])))
    /\ UNCHANGED <<client, input>>
    /\ callsUnchanged

NextRequest ==
    \/ GrpcGetTraceRequest
    \/ GrpcFindTracesRequest
    \/ HttpGetTraceParams
    \/ HttpFindTracesParams

SpecRequest == InitRequest /\ [][NextRequest]_vars

(***************************************************************************)
(* The server (index.ts, two versions in part_001): the configuration      *)
(* loader _createJaegerClient, applied to the environment, and the         *)
(* callback createToolCallback registers for a tool, applied to the        *)
(* settlement of tool.handle.                                              *)
(***************************************************************************)
MAX_REQUEST_TIMEOUT_MS == 300000

\* The version with _parseRequestTimeoutMs and catch (error: unknown), and
\* the earlier one below it.
ServerLater == "part_001:1"
ServerEarlier == "part_001:136"
ServerVersions == {ServerLater, ServerEarlier}

\* `${n}` of a whole number below 10^21.
NumberText(v) ==
    IF v = JNaN THEN "NaN"
    ELSE IF StartsWith(v.s, "#")
         THEN (IF v.neg THEN "-" ELSE "") \o SubSeq(v.s, 2, Len(v.s))
         ELSE (IF v.neg /\ v.n # 0 THEN "-" ELSE "") \o ToString(v.n)

IsAtMost(v, bound) == v.neg \/ (~StartsWith(v.s, "#") /\ v.n <= bound)

\* _parseRequestTimeoutMs(): the number handed on, undefined (None), or the
\* Error thrown.
parseRequestTimeoutMs(raw) ==
    IF raw = None \/ raw = Some("") THEN Returned(None)
    ELSE LET parsed == ParseInt(raw[1])
         IN  IF parsed = JNaN
             THEN Thrown("Invalid JAEGER_REQUEST_TIMEOUT_MS: must be a positive number. Got: \""
                             \o JsonEscape(raw[1]) \o "\"")
             ELSE IF IsAtMost(parsed, 0)
             THEN Thrown("Invalid JAEGER_REQUEST_TIMEOUT_MS: must be positive. Got: "
                             \o NumberText(parsed))
             ELSE IF ~IsAtMost(parsed, MAX_REQUEST_TIMEOUT_MS)
             THEN Thrown("Invalid JAEGER_REQUEST_TIMEOUT_MS: must be at most "
                             \o ToString(MAX_REQUEST_TIMEOUT_MS) \o " ("
                             \o ToString(MAX_REQUEST_TIMEOUT_MS \div 1000) \o "s). Got: "
                             \o NumberText(parsed))
             ELSE Returned(Some(parsed))

\* The earlier version: JAEGER_REQUEST_TIMEOUT_MS ? parseInt(..., 10) : undefined
parseRequestTimeoutMsEarlier(raw) ==
    IF raw = None \/ raw = Some("") THEN Returned(None)
    ELSE Returned(Some(ParseInt(raw[1])))

\* _createJaegerClient(): the configuration handed to createClient, or the
\* Error thrown before createClient is called.
createJaegerClient(version, env) ==
    IF env.JAEGER_URL = None \/ env.JAEGER_URL = Some("")
    THEN Thrown("No Jaeger URL (by \"JAEGER_URL\" environment variable) is specified")
    ELSE LET requestTimeoutMs ==
                 IF version = ServerLater
                 THEN parseRequestTimeoutMs(env.JAEGER_REQUEST_TIMEOUT_MS)
                 ELSE parseRequestTimeoutMsEarlier(env.JAEGER_REQUEST_TIMEOUT_MS)
         IN  IF ~requestTimeoutMs.ok THEN requestTimeoutMs
             ELSE Returned([url |-> env.JAEGER_URL[1], port |-> None,
                            authorizationHeader |-> env.JAEGER_AUTHORIZATION_HEADER,
                            requestTimeoutMs |-> requestTimeoutMs.val])

\* Values a handler can throw, each with its own message property, if it
\* has one, and with String(value).
ErrorValue(message) ==
    [t |-> "Error", message |-> Some(message), text |-> "Error: " \o message]
StringValue(s) == [t |-> "string", message |-> None, text |-> s]
NullValue == [t |-> "null", message |-> None, text |-> "null"]
UndefinedValue == [t |-> "undefined", message |-> None, text |-> "undefined"]
NumberValue(n) == [t |-> "number", message |-> None, text |-> ToString(n)]

ThrownValues ==
    {ErrorValue(formatRequestTimedOutMessage(1500)),
     ErrorValue("14 UNAVAILABLE: No connection established"),
     ErrorValue(""), StringValue("boom"), NullValue, UndefinedValue, NumberValue(42)}

\* What tool.handle settles with: a response text, or a thrown value.
HandlerSettlements ==
    {[st |-> "resolved", val |-> text, err |-> NullValue] :
        text \in {"", "{\"services\":[\"frontend\"]}"}}
      \cup {[st |-> "rejected", val |-> "", err |-> e] : e \in ThrownValues}

\* The lines logger.debug is called with.
DebugLines(tool, debug, lines) ==
    IF tool = "find-traces" /\ debug THEN lines ELSE <<>>

\* The callback of createToolCallback(tool): the CallToolResult it resolves
\* with, or the error it rejects with, and what it logged on the way.
toolCallback(version, tool, debug, settled) ==
    IF settled.st = "resolved"
    THEN [ok |-> TRUE, val |-> [isError |-> FALSE, text |-> settled.val],
          logged |-> DebugLines(tool, debug, <<"find-traces start", "find-traces end">>)]
    ELSE LET error == settled.err
         IN  IF version = ServerLater
             THEN LET message == IF error.t = "Error" THEN error.message[1] ELSE error.text
                  IN  [ok |-> TRUE,
                       val |-> [isError |-> TRUE, text |-> "Error: " \o message],
                       logged |-> DebugLines(tool, debug,
                                      <<"find-traces start", "find-traces error " \o message>>)]
             ELSE IF error.t \in {"null", "undefined"}
             THEN [ok |-> FALSE,
                   val |-> "TypeError: Cannot read properties of " \o error.t
                               \o " (reading 'message')",
                   logged |-> DebugLines(tool, debug, <<"find-traces start">>)]
             ELSE LET message == IF error.message # None THEN error.message[1]
                                 ELSE "undefined"
                  IN  [ok |-> TRUE,
                       val |-> [isError |-> TRUE, text |-> "Error: " \o message],
                       logged |-> DebugLines(tool, debug,
                                      <<"find-traces start", "find-traces error " \o message>>)]

Environments ==
    [JAEGER_URL : {None, Some(""), Some("http://jaeger")},
     JAEGER_AUTHORIZATION_HEADER : {None},
     JAEGER_REQUEST_TIMEOUT_MS :
        {None} \cup {Some(raw) : raw \in {"", "1", "1500", "300000", "300001", "0", "-0",
                                            "-5", "abc", "12abc", " 42", "1e3", "0x10",
                                            "99999999999"}}]

InitServer ==
    /\ client = NoClient
    /\ CallsIdle
    /\ input \in {Some([fn |-> "_createJaegerClient", version |-> v, env |-> e]) :
                     v \in ServerVersions, e \in Environments}
            \cup {Some([fn |-> "createToolCallback", version |-> v, tool |-> t,
                        debug |-> d, settled |-> s]) :
                     v \in ServerVersions, t \in {"find-traces", "get-services"},
                     d \in BOOLEAN, s \in HandlerSettlements}
    /\ output = None

\* const jaegerClient = _createJaegerClient(): createClient builds the
\* default client, which keeps requestTimeoutMs ?? DEFAULT_REQUEST_TIMEOUT_MS.
CreateJaegerClient ==
    /\ output = None
    /\ input[1].fn = "_createJaegerClient"
    /\ LET made == createJaegerClient(input[1].version, input[1].env)
       IN  /\ output' = Some(made)
           /\ client' = IF ~made.ok THEN client
                        ELSE [impl |-> GrpcImpl,
                              requestTimeoutMs |->
                                  IF made.val.requestTimeoutMs = None
                                  THEN JNumber(FALSE, DEFAULT_REQUEST_TIMEOUT_MS, "")
                                  ELSE made.val.requestTimeoutMs[1],
                              baseUrl |-> createQueryService(made.val.url, None).serverUrl,
                              authorizationHeader |-> made.val.authorizationHeader]
    /\ UNCHANGED input
    /\ callsUnchanged

ToolCallback ==
    /\ output = None
    /\ input[1].fn = "createToolCallback"
    /\ output' = Some(toolCallback(input[1].version, input[1].tool, input[1].debug,
                                   input[1].settled))
    /\ UNCHANGED <<client, input>>
    /\ callsUnchanged

NextServer == CreateJaegerClient \/ ToolCallback

SpecServer == InitServer /\ [][NextServer]_vars

(***************************************************************************)
(* Properties.                                                             *)
(***************************************************************************)
Streaming(c) == client.impl = GrpcImpl /\ op[c] \in STREAMING_METHODS
Decided(c) == outcome[c].kind # "none"

CountOf(chunk) == IF chunk.resourceSpans = None THEN 0 ELSE Len(chunk.resourceSpans[1])

RECURSIVE TotalCount(_)
TotalCount(seq) == IF seq = <<>> THEN 0 ELSE CountOf(Head(seq)) + TotalCount(Tail(seq))

\* list holds, chunk after chunk and in each chunk's own order, the
\* resource-spans of the chunks of seq.
IsConcatenation(list, seq) ==
    /\ Len(list) = TotalCount(seq)
    /\ \A k \in 1..Len(seq) : \A j \in 1..CountOf(seq[k]) :
          list[TotalCount(SubSeq(seq, 1, k - 1)) + j] = seq[k].resourceSpans[1][j]

HasResourceless(seq) ==
    \E k \in 1..Len(seq) : \E j \in 1..CountOf(seq[k]) :
       seq[k].resourceSpans[1][j].resource = None

C2_ErrorNeverSucceeds ==
    \A c \in Calls :
       (Streaming(c) /\ raised[c] # NoError /\ Decided(c)) =>
          outcome[c].kind = "failure"

\* C2 amended: once an error event has occurred on a stream, the chunks
\* accumulated are never delivered, whatever follows the error: the call
\* fails, except that an UNIMPLEMENTED error gives the empty result.
C2_ErrorDiscardsChunks ==
    \A c \in Calls :
       (Streaming(c) /\ raised[c] # NoError) =>
          /\ promise[c].st = "rejected"
          /\ Decided(c) =>
                IF raised[c].code = Some(UNIMPLEMENTED)
                THEN outcome[c] = EmptyResult
                ELSE outcome[c].kind = "failure"

C2_Witness ==
    \E c \in Calls :
       /\ Streaming(c) /\ raised[c] # NoError /\ sentAtError[c] >= 1
       /\ Len(sent[c]) > sentAtError[c]
       /\ phase[c] = "ended"
       /\ cbLog[c] = <<"error", "response">>
       /\ outcome[c].kind = "failure"

\* C3 as claimed: whenever the caller of a streaming call has a success
\* result, the end event of the call's stream has occurred.
C3_SuccessOnlyAfterEnd ==
    \A c \in Calls :
       (Streaming(c) /\ outcome[c].kind = "success") => phase[c] = "ended"

\* C3 amended: a streaming call never returns resource-spans before the end
\* event of its stream, and data events alone complete nothing; the only
\* success a call reaches without the end event is the empty result of an
\* UNIMPLEMENTED error.
C3_SpansOnlyAfterEnd ==
    \A c \in Calls :
       Streaming(c) =>
          /\ (outcome[c].kind = "success" /\ phase[c] # "ended") =>
                (raised[c].code = Some(UNIMPLEMENTED) /\ outcome[c] = EmptyResult)
          /\ "resourceSpans" \in outcome[c].present => phase[c] = "ended"
          /\ phase[c] = "open" =>
                (promise[c].st = "pending" /\ cbLog[c] = <<>> /\ ~Decided(c))

C3_Witness ==
    \E c \in Calls :
       /\ Streaming(c) /\ phase[c] = "open" /\ Len(sent[c]) >= 2
       /\ TotalCount(sent[c]) >= 2 /\ promise[c].st = "pending"

\* The request of call c was cut by the timeout of the client: the transport
\* raised DEADLINE_EXCEEDED (gRPC) or the axios timeout (REST).
TimedOut(c) ==
    IF client.impl = GrpcImpl THEN raised[c].code = Some(DEADLINE_EXCEEDED)
    ELSE raised[c] \in {MkError("transport", Some("ECONNABORTED"),
                                "timeout of " \o ToString(client.requestTimeoutMs)
                                    \o "ms exceeded", None, None)}

\* C4: with calls running concurrently on one client, each call's deadline
\* is the time it was issued plus requestTimeoutMs, a deadline error reaches
\* a call only once its own deadline has come, each call's buffer holds the
\* chunks of its own stream only, a result holds the resource-spans of the
\* call's own stream only, and a call fails only by an error its own request
\* raised or by its own response: never by the error or timeout of another.
C4_CallsAreIsolated ==
    \A c \in Calls :
       op[c] # "none" =>
          /\ deadline[c] = issuedAt[c] + client.requestTimeoutMs
          /\ TimedOut(c) => now >= issuedAt[c] + client.requestTimeoutMs
          /\ chunks[c] = sent[c]
          /\ \A k \in 1..Len(chunks[c]) : \A j \in 1..CountOf(chunks[c][k]) :
                chunks[c][k].resourceSpans[1][j] = WireRs(c, k, j, Some(WireResource))
          /\ (client.impl = GrpcImpl /\ "resourceSpans" \in outcome[c].present) =>
                /\ IsConcatenation(promise[c].val.resourceSpans, sent[c])
                /\ Len(outcome[c].items) = TotalCount(sent[c])
                /\ \A i \in 1..Len(outcome[c].items) :
                      outcome[c].items[i].schemaUrl
                         = Some(promise[c].val.resourceSpans[i].schemaUrl)
          /\ outcome[c].kind = "failure" =>
                \/ raised[c] # NoError
                \/ client.impl \in HttpImpls /\ outcome[c].err = TypeErrorUndefined
          /\ (client.impl = GrpcImpl /\ raised[c] = NoError /\ Decided(c)) =>
                outcome[c].kind = "success"

C4_Witness ==
    \E c, d \in Calls :
       /\ c # d /\ Streaming(c) /\ Streaming(d)
       /\ issuedAt[c] # issuedAt[d]
       /\ sent[c] # <<>> /\ sent[d] # <<>>
       /\ TimedOut(c) /\ outcome[c].kind = "failure"
       /\ raised[d] = NoError /\ outcome[d].kind = "success"
       /\ Len(outcome[d].items) = TotalCount(sent[d])

\* N = round(ms / 1000): the integer with N - 1/2 <= ms / 1000 < N + 1/2.
IsRounded(n, ms) == 1000 * n - 500 <= ms /\ ms < 1000 * n + 500

IsTimeoutMessage(message) ==
    \E n \in 0..((client.requestTimeoutMs \div 1000) + 1) :
       /\ IsRounded(n, client.requestTimeoutMs)
       /\ message = "Request timed out after " \o ToString(n) \o "s"

\* C5: on both transports a call the backend does not answer within
\* requestTimeoutMs fails with the message "Request timed out after <N>s",
\* N = round(requestTimeoutMs / 1000).
C5_TimeoutMessageOnBothTransports ==
    \A c \in Calls :
       (TimedOut(c) /\ Decided(c)) =>
          (outcome[c].kind = "failure" /\ IsTimeoutMessage(outcome[c].err.message))

\* The backend answered call c with "not found": gRPC status NOT_FOUND, or
\* HTTP status 404 on the error's response.
AnsweredNotFound(c) ==
    IF client.impl = GrpcImpl THEN raised[c].code = Some(5)
    ELSE raised[c].responseStatus = Some(HTTP_STATUS_CODE_NOT_FOUND)

\* C6: on both transports getTrace for a trace the backend does not have
\* returns a successful empty result and never fails.
C6_MissingTraceIsEmptyResult ==
    \A c \in Calls :
       (op[c] = "getTrace" /\ AnsweredNotFound(c) /\ Decided(c)) =>
          (outcome[c].kind = "success" /\ outcome[c].items = <<>>)

\* C7: on the REST client, for each operation, a rejection whose response
\* carries status 404 is returned as a successful empty result, and any
\* other response whose status is not 200 makes the call fail.
C7_Http404IsEmptyResult ==
    \A c \in Calls :
       (client.impl \in HttpImpls /\ Decided(c)) =>
          /\ raised[c].responseStatus = Some(HTTP_STATUS_CODE_NOT_FOUND) =>
                outcome[c] = EmptyResult
          /\ (raised[c].responseStatus # None
                /\ raised[c].responseStatus # Some(HTTP_STATUS_CODE_NOT_FOUND)) =>
                outcome[c].kind = "failure"
          /\ (promise[c].st = "resolved" /\ promise[c].val.status # 200) =>
                outcome[c].kind = "failure"

\* C8: on the streaming client, for each of the four operations, an
\* UNIMPLEMENTED error yields a successful result with all fields absent,
\* also when it arrives on a stream that has already delivered chunks.
C8_UnimplementedIsEmptyResult ==
    \A c \in Calls :
       (client.impl = GrpcImpl /\ raised[c].code = Some(UNIMPLEMENTED) /\ Decided(c)) =>
          (outcome[c].kind = "success" /\ outcome[c].present = {}
             /\ outcome[c].items = <<>>)

C8_Witness ==
    /\ \E c \in Calls :
          /\ Streaming(c) /\ raised[c].code = Some(UNIMPLEMENTED)
          /\ sentAtError[c] >= 1 /\ TotalCount(SubSeq(sent[c], 1, sentAtError[c])) >= 1
          /\ outcome[c].kind = "success" /\ outcome[c].present = {}

\* C9: on the streaming client an error whose status is neither
\* UNIMPLEMENTED nor DEADLINE_EXCEEDED reaches the caller unchanged: the same
\* error object with its own message, for each of the four operations; so
\* does the error a response conversion throws.
C9_OtherErrorsPropagateUnchanged ==
    \A c \in Calls :
       (client.impl = GrpcImpl /\ Decided(c)) =>
          /\ (raised[c] # NoError
                /\ raised[c].code \notin {Some(UNIMPLEMENTED), Some(DEADLINE_EXCEEDED)}) =>
                (outcome[c].kind = "failure" /\ outcome[c].err = raised[c]
                   /\ outcome[c].err.origin = "transport")
          /\ (raised[c] = NoError /\ outcome[c].kind = "failure") =>
                outcome[c].err = TypeErrorNull

C9_Witness ==
    \E c \in Calls :
       /\ client.impl = GrpcImpl /\ op[c] = "getOperations"
       /\ raised[c].code = Some(14)
       /\ outcome[c].kind = "failure"
       /\ outcome[c].err.message = "14 UNAVAILABLE: No connection established"

\* C10: on the REST client a failure carries the timeout message only if the
\* request did not complete within requestTimeoutMs, and every other failure
\* that is not an HTTP 404 reaches the caller with its own message intact.
C10_HttpOnlyTimeoutsGetTimeoutMessage ==
    \A c \in Calls :
       (client.impl \in HttpImpls /\ outcome[c].kind = "failure") =>
          /\ IsTimeoutMessage(outcome[c].err.message) => TimedOut(c)
          /\ (raised[c] # NoError /\ ~TimedOut(c)) => outcome[c].err = raised[c]

\* The request of call c ended in an error that is no "not found" answer of
\* the backend: a timeout or a transport error.
EndedInError(c) ==
    /\ raised[c] # NoError
    /\ IF client.impl = GrpcImpl THEN raised[c].code # Some(UNIMPLEMENTED)
       ELSE /\ raised[c].responseStatus # Some(HTTP_STATUS_CODE_NOT_FOUND)
            /\ raised[c].status # Some(HTTP_STATUS_CODE_NOT_FOUND)

\* C11: neither client retries: every invocation of an operation issues
\* exactly one network request, and when that request ends in a timeout or a
\* transport error it is not issued again and the caller gets the failure.
C11_OneRequestPerCall ==
    \A c \in Calls :
       /\ requests[c] = IF op[c] = "none" THEN 0 ELSE 1
       /\ raised[c] # NoError => (promise[c].st = "rejected" /\ phase[c] # "open")
       /\ (EndedInError(c) /\ Decided(c)) => outcome[c].kind = "failure"

C11_Witness ==
    \E c \in Calls :
       /\ TimedOut(c) /\ now >= deadline[c]
       /\ outcome[c].kind = "failure"
       /\ requests[c] = 1

\* C12 as claimed: createClient returns the streaming client when no
\* protocol preference is set or the preference is GRPC, the REST client when
\* it is HTTP, and for every other preference value it throws an error and
\* returns no client.
C12_UnrecognizedPreferenceFails ==
    (output # None /\ "protocol" \in DOMAIN input[1]) =>
       LET p == input[1].protocol
       IN  IF p = None \/ (p # None /\ ToUpperCase(p[1]) = "GRPC")
           THEN output[1] = Returned(GrpcImpl) /\ client.impl = GrpcImpl
           ELSE IF ToUpperCase(p[1]) = "HTTP"
           THEN output[1] = Returned(HttpClass) /\ client.impl \in HttpImpls
           ELSE ~output[1].ok /\ client = NoClient

\* C12 amended: createClient returns the streaming client when the protocol
\* preference is not set, is the empty string, or is GRPC in any letter
\* case, the REST client when it is HTTP in any letter case, and for every
\* other value it throws "Invalid Jaeger protocol: <value>" and no client is
\* constructed.
C12_ProtocolSelection ==
    (output # None /\ "protocol" \in DOMAIN input[1]) =>
       LET p == input[1].protocol
       IN  IF p \in {None, Some("")} \/ (p # None /\ ToUpperCase(p[1]) = "GRPC")
           THEN output[1] = Returned(GrpcImpl) /\ client.impl = GrpcImpl
           ELSE IF ToUpperCase(p[1]) = "HTTP"
           THEN output[1] = Returned(HttpClass) /\ client.impl \in HttpImpls
           ELSE /\ output[1] = Thrown("Invalid Jaeger protocol: " \o p[1])
                /\ client = NoClient

C12_Witness ==
    /\ output # None /\ "protocol" \in DOMAIN input[1]
    /\ input[1].protocol = Some("REST")
    /\ ~output[1].ok
    /\ client = NoClient

\* Decoding a {seconds, nanos} pair back to milliseconds.
DecodeMs(pair) == pair.seconds * 1000 + pair.nanos \div 1000000

\* floor(ms / 1000) is the integer q with 1000 q <= ms < 1000 (q + 1), and
\* ms mod 1000 is what is left of ms above 1000 q.
IsEncodingOf(pair, ms) ==
    /\ 1000 * pair.seconds <= ms /\ ms - 1000 * pair.seconds < 1000
    /\ pair.nanos = (ms - 1000 * pair.seconds) * 1000000

\* C13 as claimed: every millisecond input is encoded as the pair seconds =
\* floor(ms/1000), nanos = (ms mod 1000) * 1,000,000, and the pair decodes
\* back to ms.
C13_EveryInputRoundTrips ==
    (output # None /\ "ms" \in DOMAIN input[1] /\ input[1].ms # None) =>
       /\ output[1].val # None
       /\ IsEncodingOf(output[1].val[1], input[1].ms[1])
       /\ DecodeMs(output[1].val[1]) = input[1].ms[1]

\* C13 amended: every positive millisecond input is encoded as the pair
\* seconds = floor(ms/1000), nanos = (ms mod 1000) * 1,000,000, which
\* decodes back to ms; for the input 0, as for an absent input, no pair is
\* produced.
C13_PositiveInputRoundTrips ==
    (output # None /\ "ms" \in DOMAIN input[1]) =>
       LET ms == input[1].ms
       IN  /\ (ms # None /\ ms[1] > 0) =>
                /\ output[1].val # None
                /\ IsEncodingOf(output[1].val[1], ms[1])
                /\ DecodeMs(output[1].val[1]) = ms[1]
           /\ (ms = None \/ ms = Some(0)) => output[1].val = None

C13_Witness ==
    /\ output # None /\ "ms" \in DOMAIN input[1]
    /\ input[1].ms = Some(1999)
    /\ output[1].val = Some([seconds |-> 1, nanos |-> 999000000])

\* The fixed tables: the canonical string of each numeric wire value.
KindOfWire == <<"unspecified", "internal", "server", "client", "producer", "consumer">>
StatusOfWire == <<"unset", "ok", "error">>

\* C14: each of the six canonical span-kind strings, mapped to its numeric
\* wire form (0..5) and back through toSpanKind, is the original string, and
\* so is each of the three status codes (0..2) through toStatusCode.
C14_EnumRoundTrip ==
    (output # None /\ "arg" \in DOMAIN input[1] /\ input[1].arg # None
       /\ IsWholeNumber(input[1].arg[1])) =>
       LET w == input[1].arg[1].n
       IN  /\ (input[1].fn = "toSpanKind" /\ w < Len(KindOfWire)) =>
                output[1].val = Some(KindOfWire[w + 1])
           /\ (input[1].fn = "toStatusCode" /\ w < Len(StatusOfWire)) =>
                output[1].val = Some(StatusOfWire[w + 1])

Parsed(fn) ==
    output # None /\ "endpoint" \in DOMAIN input[1] /\ input[1].fn = fn

\* The endpoint ends in a colon and digits.
EndsInPort(e) == e.port.text # "" /\ e.path = ""

\* The scheme of the parsed URL according to the rule of C16.
SchemeRule(e, configPort) ==
    IF e.scheme # "" THEN e.scheme
    ELSE IF configPort = Some(443) THEN "https://" ELSE "http://"

\* C16: parseUrlAndPort gives an endpoint without a scheme the scheme
\* http://, or https:// exactly when the configured port is 443, and leaves
\* the scheme of an endpoint that has one.
C16_SchemeAdded ==
    Parsed("parseUrlAndPort") =>
        LET e == input[1].endpoint
        IN  StartsWith(output[1].val.url, SchemeRule(e, input[1].configPort) \o e.host)

C16_Witness ==
    /\ Parsed("parseUrlAndPort")
    /\ input[1].endpoint.scheme = ""
    /\ input[1].endpoint.host = "jaeger.example.com"
    /\ input[1].configPort = Some(443)
    /\ output[1].val.url = "https://jaeger.example.com"

\* C17: parseUrlAndPort returns the port an endpoint ends in, stripped from
\* the url and before any configured port; otherwise the configured port
\* when one is given, else 443 for the scheme https://, else 16686.
C17_PortResolution ==
    Parsed("parseUrlAndPort") =>
        LET e == input[1].endpoint
            scheme == SchemeRule(e, input[1].configPort)
        IN  IF EndsInPort(e)
            THEN /\ output[1].val.port = e.port.n
                 /\ output[1].val.url = scheme \o e.host
            ELSE /\ output[1].val.url = scheme \o e.host \o e.port.text \o e.path
                 /\ output[1].val.port =
                       IF input[1].configPort # None THEN input[1].configPort[1]
                       ELSE IF scheme = "https://" THEN 443 ELSE 16686

C17_Witness ==
    /\ Parsed("parseUrlAndPort")
    /\ input[1].endpoint.scheme = "http://"
    /\ input[1].endpoint.host = "localhost"
    /\ input[1].endpoint.port.text = ":16764"
    /\ input[1].endpoint.path = ""
    /\ input[1].configPort = Some(9999)
    /\ output[1].val = [url |-> "http://localhost", port |-> 16764]

\* C18: the streaming client uses secure credentials exactly when the
\* scheme is https://, or the endpoint has no scheme and its resolved port
\* (the port it ends in, else the configured port, else 16685) is 443.
C18_SecureIffHttpsOrPort443 ==
    Parsed("_createQueryService") =>
        LET e == input[1].endpoint
            resolved == IF EndsInPort(e) THEN e.port.n
                        ELSE IF input[1].configPort # None THEN input[1].configPort[1]
                        ELSE 16685
        IN  output[1].val.secure <=>
               (e.scheme = "https://" \/ (e.scheme = "" /\ resolved = 443))

Decoded(impls) ==
    output # None /\ "kv" \in DOMAIN input[1] /\ client.impl \in impls

\* The span the client returns, on either transport.
GrpcSpanOut == output[1].val.scopeSpans[1].spans[1]
HttpSpanOut == output[1].val.scopeSpans[1][1].spans[1][1]

\* C15: on both transports every returned span kind is the canonical string
\* of its wire value 0..5 and every returned status code the canonical
\* string of its wire value 0..2: no number and no missing kind is returned.
C15_CanonicalKindAndStatus ==
    /\ Decoded({GrpcImpl}) =>
          /\ (input[1].kind # None /\ input[1].kind[1] < Len(KindOfWire)) =>
                GrpcSpanOut.kind = Some(KindOfWire[input[1].kind[1] + 1])
          /\ (input[1].status # None /\ input[1].status[1].code[1] < Len(StatusOfWire)) =>
                GrpcSpanOut.status[1].code =
                   Some(StatusOfWire[input[1].status[1].code[1] + 1])
    /\ Decoded(HttpImpls) =>
          /\ (input[1].kind # None /\ input[1].kind[1].t = "number"
                 /\ input[1].kind[1].n < Len(KindOfWire)) =>
                HttpSpanOut.kind = Some(JString(KindOfWire[input[1].kind[1].n + 1]))
          /\ (input[1].status # None /\ input[1].status[1].code[1].t = "number"
                 /\ input[1].status[1].code[1].n < Len(StatusOfWire)) =>
                HttpSpanOut.status[1].code =
                   Some(JString(StatusOfWire[input[1].status[1].code[1].n + 1]))

\* The attributes the streaming client returns, one per level.
GrpcAttributesOut ==
    LET rs == output[1].val
        span == rs.scopeSpans[1].spans[1]
    IN  {rs.resource.attributes, rs.scopeSpans[1].scope.attributes, span.attributes,
         span.events[1][1].attributes, span.links[1][1].attributes}

Members == {"stringValue", "boolValue", "intValue", "doubleValue"}

\* C19: every Attribute the streaming client returns has exactly one of
\* stringValue, boolValue, intValue, doubleValue populated, the one the
\* backend sent (the empty string, false and 0 included), the others absent.
C19_ExactlyOneValuePopulated ==
    (Decoded({GrpcImpl}) /\ input[1].kv.value # None) =>
        \A attributes \in GrpcAttributesOut :
           /\ attributes # None
           /\ \A m \in Members :
                 attributes[1][1].value[m] = input[1].kv.value[1][m]
           /\ Cardinality({m \in Members : attributes[1][1].value[m] # None}) = 1

\* The attributes the REST client returns, one per level.
HttpAttributesOut ==
    LET rs == output[1].val
        span == HttpSpanOut
    IN  {rs.resource[1].attributes, rs.scopeSpans[1][1].scope[1].attributes,
         span.attributes, span.events[1][1].attributes, span.links[1][1].attributes}

\* The value of the member of an attribute, when the backend sent text.
SentAsText(member, numeral) ==
    /\ Decoded(HttpImpls)
    /\ input[1].kv.value # None
    /\ input[1].kv.value[1][member] = Some(JString(numeral.text))

\* Every level returns the attribute's member as the number v.
ReturnedAsNumber(member, v) ==
    \A attributes \in HttpAttributesOut :
        attributes # None /\ attributes[1][1].value[1][member] = Some(v)

\* A whole number every JavaScript number can hold exactly.
IsExact(v) == ~StartsWith(v.s, "#") \/ DigitsLeq(SubSeq(v.s, 2, Len(v.s)), TwoPow53)

\* C20 (as stated): after REST normalization every attribute at every level
\* whose intValue or doubleValue came as a JSON string carries the number
\* equal to the numeric value of that string.
C20_NumericStringsBecomeNumbers ==
    /\ \A x \in IntNumerals :
          SentAsText("intValue", x) => ReturnedAsNumber("intValue", x.v)
    /\ \A x \in DoubleNumerals :
          SentAsText("doubleValue", x) => ReturnedAsNumber("doubleValue", x.v)

\* C20 (amended): the number equals the value of the string whenever a
\* JavaScript number holds that value exactly (whole numbers up to 2^53 in
\* magnitude); a larger int64 becomes the nearest number there is, and a
\* value that came as a JSON number is returned as it came.
C20_ExactNumericStringsBecomeNumbers ==
    /\ \A x \in IntNumerals :
          SentAsText("intValue", x) =>
             IF IsExact(x.v) THEN ReturnedAsNumber("intValue", x.v)
             ELSE ReturnedAsNumber("intValue",
                     JBig(x.v.neg, ToDoubleDigits(SubSeq(x.v.s, 2, Len(x.v.s)))))
    /\ \A x \in DoubleNumerals :
          SentAsText("doubleValue", x) => ReturnedAsNumber("doubleValue", x.v)
    /\ \A m \in {"intValue", "doubleValue"} :
          (Decoded(HttpImpls) /\ input[1].kv.value # None
             /\ input[1].kv.value[1][m] # None /\ input[1].kv.value[1][m][1].t = "number") =>
             ReturnedAsNumber(m, input[1].kv.value[1][m][1])

C20_Witness ==
    /\ SentAsText("intValue", Numeral("1700000000000", JBig(FALSE, "1700000000000")))
    /\ client.impl = HttpRev2
    /\ HttpSpanOut.links[1][1].attributes[1][1].value[1].intValue =
          Some(JBig(FALSE, "1700000000000"))
    /\ HttpSpanOut.events[1][1].attributes[1][1].value[1].intValue =
          Some(JBig(FALSE, "1700000000000"))

\* A string of lowercase hexadecimal digits of the given width, or "".
IsHexId(id, width) ==
    /\ Len(id) \in {0, width}
    /\ \A i \in 1..Len(id) :
          \E j \in 1..Len(HexDigits) : SubSeq(id, i, i) = SubSeq(HexDigits, j, j)

\* C21: in every span and link either transport returns, traceId, spanId
\* and parentSpanId are lowercase hex strings of 32 (trace) or 16 (span)
\* characters, or "" for a zero-length id: never null, absent, upper-case
\* or of another length.
C21_IdsAreFixedWidthLowercaseHex ==
    /\ Decoded({GrpcImpl}) =>
          /\ IsHexId(GrpcSpanOut.traceId, 32)
          /\ IsHexId(GrpcSpanOut.spanId, 16)
          /\ IsHexId(GrpcSpanOut.parentSpanId, 16)
          /\ IsHexId(GrpcSpanOut.links[1][1].traceId, 32)
          /\ IsHexId(GrpcSpanOut.links[1][1].spanId, 16)
    /\ Decoded(HttpImpls) =>
          /\ \A f \in {"traceId", "spanId", "parentSpanId"} :
                /\ HttpSpanOut[f] # None
                /\ IsHexId(HttpSpanOut[f][1], IF f = "traceId" THEN 32 ELSE 16)
          /\ \A f \in {"traceId", "spanId"} :
                /\ HttpSpanOut.links[1][1][f] # None
                /\ IsHexId(HttpSpanOut.links[1][1][f][1], IF f = "traceId" THEN 32 ELSE 16)

\* C22: constructing a client of either transport with requestTimeoutMs
\* <= 0 fails at construction, so no client with a non-positive timeout
\* exists to issue a call.
C22_NonPositiveTimeoutFailsConstruction ==
    (output # None /\ "config" \in DOMAIN input[1]
       /\ input[1].config.requestTimeoutMs # None
       /\ input[1].config.requestTimeoutMs[1] <= 0) =>
        /\ ~output[1].ok
        /\ client = NoClient

\* Call c returned a list of operations.
ReturnedOperations(c) ==
    /\ op[c] = "getOperations"
    /\ outcome[c].kind = "success"
    /\ "operations" \in outcome[c].present

\* C24: whichever transport produced it, every Operation getOperations
\* returns has a spanKind that is one of the six canonical span kinds; the
\* backend's list is the same on both transports.
C24_OperationsAreCanonical ==
    \A c \in Calls :
       ReturnedOperations(c) =>
          \A k \in 1..Len(outcome[c].items) :
             LET spanKind == outcome[c].items[k].spanKind
                 canonical == {KindOfWire[i] : i \in 1..Len(KindOfWire)}
             IN  IF client.impl = GrpcImpl
                 THEN spanKind # None /\ spanKind[1] \in canonical
                 ELSE spanKind \in canonical

\* C25: no operation changes the client: through every sequence of calls
\* it keeps the transport, the channel or base URL, the authorization
\* header and the requestTimeoutMs set at construction, and a call starts
\* with nothing an earlier call left behind.
C25_CallsLeaveClientUnchanged ==
    /\ [][client' = client]_vars
    /\ [](\A c \in Calls :
             op[c] = "none" =>
                /\ chunks[c] = <<>> /\ cbLog[c] = <<>> /\ sent[c] = <<>>
                /\ promise[c] = NoPromise /\ outcome[c] = NoOutcome
                /\ raised[c] = NoError)

C25_Witness ==
    \E c, d \in Calls :
       /\ c < d
       /\ TimedOut(c) /\ outcome[c].kind = "failure"
       /\ issuedAt[d] > issuedAt[c]
       /\ outcome[d].kind = "success" /\ outcome[d].present # {}
       /\ client = ClientFor(client.impl, 1500)

\* The parameters handed to _get that have a value: axios leaves a
\* parameter whose value is undefined out of the URL.
Carried(params, name) == name \in DOMAIN params /\ params[name] # None

Encoded(fn, impls) ==
    /\ output # None
    /\ input[1].fn = fn
    /\ client.impl \in impls

\* C26: the REST trace-search request carries query.attributes exactly
\* when the attributes map is present and has at least one key, and its
\* value is then the JSON object string of the map.
C26_AttributesSentIffNonEmpty ==
    Encoded("findTraces", HttpImpls) =>
        LET attributes == input[1].query.attributes
            params == output[1].val
        IN  IF attributes # None /\ Len(attributes[1]) > 0
            THEN /\ Carried(params, "query.attributes")
                 /\ params["query.attributes"][1] = JsonStringify(attributes[1])
            ELSE ~Carried(params, "query.attributes")

IsGiven(ms) == ms # None /\ ms # Some(0)

\* The time fields of a request, with the query parameter of each.
GetTraceTimes == ("startTime" :> "startTime") @@ ("endTime" :> "endTime")

FindTracesTimes ==
    ("startTimeMin" :> "query.start_time_min")
        @@ ("startTimeMax" :> "query.start_time_max")
        @@ ("durationMin" :> "query.duration_min")
        @@ ("durationMax" :> "query.duration_max")

\* C30: on both transports a timestamp or duration equal to 0 is treated
\* as absent, its field left out of the request, and every other value
\* given is present in the request.
C30_ZeroTimeIsAbsent ==
    /\ Encoded("getTrace", {GrpcImpl}) =>
          \A f \in DOMAIN GetTraceTimes :
             output[1].val[f] # None <=> IsGiven(input[1][f])
    /\ Encoded("findTraces", {GrpcImpl}) =>
          \A f \in DOMAIN FindTracesTimes :
             output[1].val.query[f] # None <=> IsGiven(input[1].query[f])
    /\ Encoded("getTrace", HttpImpls) =>
          \A f \in DOMAIN GetTraceTimes :
             Carried(output[1].val, GetTraceTimes[f]) <=> IsGiven(input[1][f])
    /\ Encoded("findTraces", HttpImpls) =>
          \A f \in DOMAIN FindTracesTimes :
             Carried(output[1].val, FindTracesTimes[f]) <=> IsGiven(input[1].query[f])

C30_Witness ==
    /\ Encoded("findTraces", HttpImpls)
    /\ input[1].query.startTimeMin = Some(0)
    /\ input[1].query.startTimeMax = Some(86400000)
    /\ input[1].query.durationMin = Some(0 - 5)
    /\ input[1].query.durationMax = Some(0)
    /\ ~Carried(output[1].val, "query.start_time_min")
    /\ output[1].val["query.start_time_max"] = Some("1970-01-02T00:00:00.000Z")
    /\ output[1].val["query.duration_min"] = Some("-5ms")
    /\ ~Carried(output[1].val, "query.duration_max")

\* C29: whatever data, end and error events a getTrace or findTraces
\* stream emits, the completion callback of the call is invoked at most
\* once.
C29_CallbackAtMostOnce ==
    \A c \in Calls : op[c] \in STREAMING_METHODS => Len(cbLog[c]) <= 1

Called(fn) == output # None /\ input[1].fn = fn

\* The message of a thrown value: that of an Error, the text of any other.
MessageOf(error) == IF error.t = "Error" THEN error.message[1] ELSE error.text

\* C27: the callback registered for a tool never throws: a response of the
\* handler comes back with isError false and the response as text; an
\* Error or any other value the handler throws comes back with isError
\* true and the text "Error: <message>"; debug logging changes nothing.
C27_ToolCallbackNeverThrows ==
    Called("createToolCallback") =>
        LET settled == input[1].settled
        IN  /\ output[1].ok
            /\ output[1].val =
                  IF settled.st = "resolved"
                  THEN [isError |-> FALSE, text |-> settled.val]
                  ELSE [isError |-> TRUE, text |-> "Error: " \o MessageOf(settled.err)]

\* C28: the loader hands createClient no timeout, when
\* JAEGER_REQUEST_TIMEOUT_MS is unset or empty, or a whole number from 1 to
\* 300000; without JAEGER_URL, or with a timeout that is not a number, not
\* positive or above 300000, it throws and no client is constructed.
C28_LoaderValidatesTimeout ==
    Called("_createJaegerClient") =>
        LET env == input[1].env
            raw == env.JAEGER_REQUEST_TIMEOUT_MS
            unset == raw = None \/ raw = Some("")
            parsed == ParseInt(raw[1])
            valid == unset \/ (parsed # JNaN /\ ~IsAtMost(parsed, 0)
                                  /\ IsAtMost(parsed, MAX_REQUEST_TIMEOUT_MS))
        IN  IF env.JAEGER_URL \in {None, Some("")} \/ ~valid
            THEN ~output[1].ok /\ client.impl = "none"
            ELSE /\ output[1].ok
                 /\ client.impl # "none"
                 /\ output[1].val.requestTimeoutMs =
                       IF unset THEN None ELSE Some(parsed)
                 /\ ~unset => parsed.n \in 1..MAX_REQUEST_TIMEOUT_MS

====
